---- MODULE Spec2Model ----
(***************************************************************************)
(* Model of the hirestack-ai generation pipeline                           *)
(* (backend/app/api/routes/generate.py) and of the chains it drives        *)
(* (ai_engine/client.py, ai_engine/chains/*.py).                           *)
(*                                                                         *)
(* Python dicts are functions whose DOMAIN is the set of keys present.     *)
(* A JSON value held under a key is a tagged record [t, v]: t is the JSON  *)
(* type ("null", "int", "str", "list", "dict") and v the payload.          *)
(***************************************************************************)
EXTENDS Integers, Sequences, FiniteSets, TLC

\* ------------------------------------------------------------------ bounds

\* longest recommendations list the model backend is made to return
MaxRecs == 3

\* ------------------------------------------------------- JSON / dict helpers

JNull == [t |-> "null", v |-> 0]
JInt(n) == [t |-> "int", v |-> n]
JStr(s) == [t |-> "str", v |-> s]
JList(s) == [t |-> "list", v |-> s]
JDict(d) == [t |-> "dict", v |-> d]

EmptyDict == [k \in {} |-> JNull]

\* `key in d`
Has(d, k) == k \in DOMAIN d

\* d[key] = value
Put(d, k, val) == [x \in (DOMAIN d) \cup {k} |-> IF x = k THEN val ELSE d[x]]

\* d.get(key, default)
Get(d, k, default) == IF k \in DOMAIN d THEN d[k] ELSE default

\* Python truthiness of a JSON value: None, 0, "", [] and {} are falsy
Truthy(j) ==
    CASE j.t = "null" -> FALSE
      [] j.t = "int" -> j.v # 0
      [] j.t = "str" -> j.v # ""
      [] j.t = "list" -> Len(j.v) > 0
      [] j.t = "dict" -> DOMAIN j.v # {}
      [] OTHER -> TRUE

Min2(a, b) == IF b < a THEN b ELSE a
Max2(a, b) == IF b > a THEN b ELSE a

\* ------------------------------------------------- gap_analyzer: normalising

\* the sort key's stand-in for a recommendation that has no priority
MissingPriority == 99

\* key=lambda x: x.get("priority", 99)
PriorityKey(x) ==
    IF "priority" \in DOMAIN x THEN x["priority"].v ELSE MissingPriority

\* one step of a stable sort: x goes behind every element whose key is <= its own
RECURSIVE InsertStable(_, _)
InsertStable(s, x) ==
    IF s = << >> THEN << x >>
    ELSE IF PriorityKey(x) < PriorityKey(s[Len(s)])
         THEN Append(InsertStable(SubSeq(s, 1, Len(s) - 1), x), s[Len(s)])
         ELSE Append(s, x)

RECURSIVE SortedRecsFrom(_, _)
SortedRecsFrom(acc, s) ==
    IF s = << >> THEN acc
    ELSE SortedRecsFrom(InsertStable(acc, Head(s)), Tail(s))

Reverse(s) == [i \in 1..Len(s) |-> s[Len(s) + 1 - i]]

\* the sort with its result turned around
SortedRecsTurned(s) == Reverse(SortedRecsFrom(<< >>, s))

\* sorted(recommendations, key=...): Python's sort is stable
SortedRecs(s) == SortedRecsFrom(<< >>, s)

\* the clamp without its lower end
ClampScoreUpperOnly(n) == Min2(100, n)

\* max(0, min(100, score))
ClampScore(n) == Max2(0, Min2(100, n))

GapKeys ==
    {"compatibility_score", "readiness_level", "executive_summary",
     "category_scores", "skill_gaps", "experience_gaps", "education_gaps",
     "certification_gaps", "project_gaps", "strengths", "recommendations",
     "quick_wins", "long_term_investments", "interview_readiness"}

\* the defaults dict of GapAnalyzerChain._validate_result
GapDefaults ==
    [k \in GapKeys |->
        CASE k = "compatibility_score" -> JInt(50)
          [] k = "readiness_level" -> JStr("needs-work")
          [] k = "executive_summary" -> JStr("")
          [] k \in {"category_scores", "interview_readiness"} -> JDict(EmptyDict)
          [] OTHER -> JList(<< >>)]

\* max()/min() of a value that is not a number raises TypeError
GapValidateRaises(result) ==
    Has(result, "compatibility_score") /\ result["compatibility_score"].t # "int"

GapClamped(result) ==
    IF Has(result, "compatibility_score")
    THEN Put(result, "compatibility_score",
             JInt(ClampScore(result["compatibility_score"].v)))
    ELSE result

GapDefaulted(result) ==
    [k \in (DOMAIN result) \cup GapKeys |->
        IF k \in DOMAIN result THEN result[k] ELSE GapDefaults[k]]

GapSorted(result) ==
    IF Truthy(Get(result, "recommendations", JNull))
    THEN Put(result, "recommendations",
             JList(SortedRecs(result["recommendations"].v)))
    ELSE result

\* GapAnalyzerChain._validate_result, for a result on which it does not raise
GapValidate(result) == GapSorted(GapDefaulted(GapClamped(result)))


\* ------------------------------------------------ role_profiler: normalising

ProfileKeys ==
    {"name", "title", "summary", "contact_info", "skills", "experience",
     "education", "certifications", "projects", "languages", "achievements"}

\* the defaults dict of RoleProfilerChain._validate_result
ProfileDefaults ==
    [k \in ProfileKeys |->
        CASE k \in {"name", "title", "summary"} -> JNull
          [] k = "contact_info" -> JDict(EmptyDict)
          [] OTHER -> JList(<< >>)]

ValidLevels == {"beginner", "intermediate", "advanced", "expert"}

\* str.lower() on the spellings the backend is made to return
Lower(s) ==
    CASE s = "Expert" -> "expert"
      [] s = "EXPERT" -> "expert"
      [] s = "Advanced" -> "advanced"
      [] s = "Python" -> "python"
      [] s = "AWS" -> "aws"
      [] s = "Go" -> "go"
      [] s = "Year" -> "year"
      [] s = "Months" -> "months"
      [] s = "Acme" -> "acme"
      [] s = "Globex" -> "globex"
      [] OTHER -> s

\* skill.get("level", "intermediate").lower() raises on a null level
CleanSkillRaises(skill) == Has(skill, "level") /\ skill["level"].t # "str"

\* RoleProfilerChain._clean_skill
CleanSkill(skill) ==
    LET level == Lower(Get(skill, "level", JStr("intermediate")).v)
    IN  [name |-> Get(skill, "name", JStr("")),
         level |-> JStr(IF level \in ValidLevels THEN level ELSE "intermediate"),
         years |-> Get(skill, "years", JNull),
         category |-> Get(skill, "category", JStr("technical"))]

\* RoleProfilerChain._clean_experience
CleanExperience(exp) ==
    [company |-> Get(exp, "company", JStr("")),
     title |-> Get(exp, "title", JStr("")),
     location |-> Get(exp, "location", JNull),
     start_date |-> Get(exp, "start_date", JNull),
     end_date |-> Get(exp, "end_date", JNull),
     is_current |-> Get(exp, "is_current", [t |-> "bool", v |-> FALSE]),
     description |-> Get(exp, "description", JNull),
     achievements |-> Get(exp, "achievements", JList(<< >>)),
     technologies |-> Get(exp, "technologies", JList(<< >>))]

\* [f(x) for x in s if keep(x)], for the two list comprehensions of the profiler
RECURSIVE CleanedSkills(_)
CleanedSkills(s) ==
    IF s = << >> THEN << >>
    ELSE IF Truthy(Get(Head(s), "name", JNull))
         THEN << CleanSkill(Head(s)) >> \o CleanedSkills(Tail(s))
         ELSE CleanedSkills(Tail(s))

RECURSIVE CleanedExperience(_)
CleanedExperience(s) ==
    IF s = << >> THEN << >>
    ELSE IF Truthy(Get(Head(s), "company", JNull))
         THEN << CleanExperience(Head(s)) >> \o CleanedExperience(Tail(s))
         ELSE CleanedExperience(Tail(s))

ProfileDefaulted(result) ==
    [k \in (DOMAIN result) \cup ProfileKeys |->
        IF k \in DOMAIN result /\ result[k].t # "null"
        THEN result[k] ELSE ProfileDefaults[k]]

ProfileValidateRaises(result) ==
    LET d == ProfileDefaulted(result)
    IN  \E i \in 1..Len(d["skills"].v) :
            /\ Truthy(Get(d["skills"].v[i], "name", JNull))
            /\ CleanSkillRaises(d["skills"].v[i])

\* RoleProfilerChain._validate_result, for a result on which it does not raise
ProfileValidate(result) ==
    LET d == ProfileDefaulted(result)
        s == IF Truthy(d["skills"])
             THEN Put(d, "skills", JList(CleanedSkills(d["skills"].v))) ELSE d
    IN  IF Truthy(s["experience"])
        THEN Put(s, "experience", JList(CleanedExperience(s["experience"].v)))
        ELSE s

\* ------------------------------------------ gap_analyzer: the quick score

\* Python's floats, each held exactly as a binary fixed-point number: Limbs
\* digits of LimbBits bits each, lowest first, the last one the whole part.
\* Every double met here (from 1/64 up to 63) has all its 53 bits inside.
Limbs == 5
LimbBits == 16
Significand == 53
Base == 2 ^ LimbBits

\* float(k) of a small whole number
FromInt(k) == [i \in 1..Limbs |-> IF i = Limbs THEN k ELSE 0]

RECURSIVE BigAddFrom(_, _, _, _)
BigAddFrom(x, y, i, carry) ==
    IF i > Limbs THEN << >>
    ELSE << (x[i] + y[i] + carry) % Base >>
         \o BigAddFrom(x, y, i + 1, (x[i] + y[i] + carry) \div Base)

\* the exact sum
BigAdd(x, y) == BigAddFrom(x, y, 1, 0)

RECURSIVE BigTimesFrom(_, _, _, _)
BigTimesFrom(x, k, i, carry) ==
    IF i > Limbs THEN << >>
    ELSE << (x[i] * k + carry) % Base >>
         \o BigTimesFrom(x, k, i + 1, (x[i] * k + carry) \div Base)

RECURSIVE BigDivFrom(_, _, _, _)
BigDivFrom(x, n, i, rem) ==
    IF i = 0 THEN << >>
    ELSE BigDivFrom(x, n, i - 1, (rem * Base + x[i]) % n)
         \o << (rem * Base + x[i]) \div n >>

RECURSIVE BigRemFrom(_, _, _, _)
BigRemFrom(x, n, i, rem) ==
    IF i = 0 THEN rem ELSE BigRemFrom(x, n, i - 1, (rem * Base + x[i]) % n)

\* the bit of x at place p, the lowest place being 1
BitAt(x, p) == (x[((p - 1) \div LimbBits) + 1] \div (2 ^ ((p - 1) % LimbBits))) % 2

\* the place of the highest bit set, 0 for zero
TopPlace(x) ==
    LET ones == {p \in 1..(Limbs * LimbBits) : BitAt(x, p) = 1}
    IN  IF ones = {} THEN 0 ELSE CHOOSE p \in ones : \A q \in ones : q <= p

\* x without its d lowest bits
Chopped(x, d) ==
    [i \in 1..Limbs |->
        IF i * LimbBits <= d THEN 0
        ELSE IF (i - 1) * LimbBits >= d THEN x[i]
        ELSE x[i] - (x[i] % (2 ^ (d - (i - 1) * LimbBits)))]

\* round to nearest, ties to even, on 53 significant bits; inexact says that
\* the true value lies above x by less than its lowest bit
Round(x, inexact) ==
    LET d == TopPlace(x) - Significand
    IN  IF d <= 0 THEN x
        ELSE LET ulp == [i \in 1..Limbs |->
                            IF i = (d \div LimbBits) + 1 THEN 2 ^ (d % LimbBits) ELSE 0]
                 rest == inexact \/ \E p \in 1..(d - 1) : BitAt(x, p) = 1
             IN  IF BitAt(x, d) = 1 /\ (rest \/ BitAt(x, d + 1) = 1)
                 THEN BigAdd(Chopped(x, d), ulp) ELSE Chopped(x, d)

\* x + y
FloatAdd(x, y) == Round(BigAdd(x, y), FALSE)

\* x / n for a whole number n
FloatDiv(x, n) == Round(BigDivFrom(x, n, Limbs, 0), BigRemFrom(x, n, Limbs, 0) # 0)

\* x * k for a whole number k
FloatTimes(x, k) == Round(BigTimesFrom(x, k, 1, 0), FALSE)

\* min(x, 1.0)
FloatMinOne(x) == IF x[Limbs] >= 1 THEN FromInt(1) ELSE x

\* int(x)
FloatInt(x) == x[Limbs]

\* A duration is a text of words. The whole number the patterns (\d+\.?\d*)
\* and (\d+) take from a word; -1 where the word is no number
NumberOf(word) ==
    CASE word = "0" -> 0
      [] word = "1" -> 1
      [] word = "3" -> 3
      [] word = "11" -> 11
      [] OTHER -> -1

YearWords == {"year", "years"}
MonthWords == {"month", "months"}

\* where re.search finds a number followed by a word of the unit
UnitPlaces(words, unit) ==
    {i \in 1..(Len(words) - 1) : Lower(words[i + 1]) \in unit /\ NumberOf(words[i]) # -1}

FirstPlace(places) == CHOOSE i \in places : \A j \in places : i <= j

\* GapAnalyzerChain._parse_duration; str(None) is "None"
ParseDuration(duration) ==
    LET words == IF duration.t = "str" THEN duration.v ELSE << "None" >>
        years == UnitPlaces(words, YearWords)
        months == UnitPlaces(words, MonthWords)
        whole == IF years = {} THEN FromInt(0)
                 ELSE FromInt(NumberOf(words[FirstPlace(years)]))
    IN  IF months = {} THEN whole
        ELSE FloatAdd(whole, FloatDiv(FromInt(NumberOf(words[FirstPlace(months)])), 12))

\* sum(self._parse_duration(e.get("duration", "0")) for e in experience)
RECURSIVE UserExpYears(_, _)
UserExpYears(experience, total) ==
    IF experience = << >> THEN total
    ELSE UserExpYears(
             Tail(experience),
             FloatAdd(total,
                      ParseDuration(Get(Head(experience), "duration", JStr(<< "0" >>)))))

\* set(s.get("name", "").lower() for s in skills)
LowerNames(skills) ==
    {Lower(Get(skills[i], "name", JStr("")).v) : i \in DOMAIN skills}

\* GapAnalyzerChain.calculate_compatibility_score
CalculateCompatibilityScore(user_profile_, benchmark) ==
    LET user_skills == LowerNames(Get(user_profile_, "skills", JList(<< >>)).v)
        required_skills == LowerNames(Get(benchmark, "ideal_skills", JList(<< >>)).v)
        skill_match == FloatDiv(FromInt(Cardinality(user_skills \cap required_skills)),
                                Cardinality(required_skills))
        user_exp_years ==
            UserExpYears(Get(user_profile_, "experience", JList(<< >>)).v, FromInt(0))
        required_years ==
            Get(Get(benchmark, "ideal_profile", JDict(EmptyDict)).v,
                "years_experience", JInt(5)).v
        exp_ratio == FloatMinOne(FloatDiv(user_exp_years, Max2(required_years, 1)))
    IN  ClampScore(
            50
            + (IF required_skills # {} THEN FloatInt(FloatTimes(skill_match, 25)) ELSE 0)
            + FloatInt(FloatTimes(exp_ratio, 25)))

\* --------------------------------------- validator: the fabrication check

\* the lower-cased company of every entry that has one
CompaniesExact(data) ==
    LET experience == Get(data, "experience", JNull)
    IN  IF Truthy(experience)
        THEN {experience.v[i]["company"].v :
                i \in {j \in DOMAIN experience.v :
                         Truthy(Get(experience.v[j], "company", JNull))}}
        ELSE {}

Companies(data) == {Lower(name) : name \in CompaniesExact(data)}

\* the check comparing the names as they are spelled
CheckForFabricationExact(generated, source) ==
    LET fabricated_companies == CompaniesExact(generated) \ CompaniesExact(source)
    IN  IF fabricated_companies # {}
        THEN << [warning |-> "Potentially fabricated companies",
                 companies |-> fabricated_companies] >>
        ELSE << >>

\* ValidatorChain.check_for_fabrication; the warning's text ends with the set
CheckForFabrication(generated, source) ==
    LET fabricated_companies == Companies(generated) \ Companies(source)
    IN  IF fabricated_companies # {}
        THEN << [warning |-> "Potentially fabricated companies",
                 companies |-> fabricated_companies] >>
        ELSE << >>

\* --------------------------------------------- career_consultant: normalising

RoadmapKeys ==
    {"roadmap", "learning_resources", "tools_recommended", "motivation_tips",
     "common_pitfalls"}

\* CareerConsultantChain._validate_result
RoadmapValidate(result) ==
    [k \in (DOMAIN result) \cup RoadmapKeys |->
        IF k \in DOMAIN result THEN result[k]
        ELSE IF k = "roadmap" THEN JDict(EmptyDict) ELSE JList(<< >>)]

\* ------------------------------------------------------ validator: verdict

JBool(b) == [t |-> "bool", v |-> b]

\* iterating a null "issues" raises TypeError
ValidateDocumentRaises(result) ==
    Has(result, "issues") /\ result["issues"].t # "list"

HasCritical(result) ==
    LET issues == Get(result, "issues", JList(<< >>)).v
    IN  \E i \in 1..Len(issues) :
            Get(issues[i], "severity", JNull) = JStr("critical")

\* the verdict with the model's own is_valid left standing
ValidateDocumentTrusting(result) ==
    [t |-> "tuple",
     v |-> << Get(result, "is_valid", JBool(TRUE)), JDict(result) >>]

\* ValidatorChain.validate_document: (is_valid, result)
ValidateDocument(result) ==
    [t |-> "tuple",
     v |-> << IF HasCritical(result) THEN JBool(FALSE)
              ELSE Get(result, "is_valid", JBool(TRUE)),
              JDict(result) >>]


\* ------------------------------------------------- generate: _format_response

\* s[:n]
Take(s, n) == SubSeq(s, 1, Min2(n, Len(s)))

\* an f-string: the template's name and the values put into it
Fmt(template, args) == [t |-> "fmt", v |-> << template >> \o args]

\* _map_severity
MapSeverity(severity) ==
    CASE severity \in {"critical", "major"} -> "high"
      [] severity = "moderate" -> "medium"
      [] severity = "minor" -> "low"
      [] OTHER -> "medium"

\* _derive_top_fix
DeriveTopFix(missing) ==
    IF Len(missing) > 0 THEN Fmt("Add proof for", << missing[1] >>)
    ELSE JStr("Your profile is strong!")

RubricLine(skill) ==
    Fmt("rubric", << Get(skill, "name", JStr("Unknown")),
                     Get(skill, "level", JStr("required")),
                     Get(skill, "importance", JStr("important")) >>)
EachRubricLine(s) == [i \in 1..Len(s) |-> RubricLine(s[i])]

\* the "benchmark" block of the response
FormatBenchmark(benchmark_data, keywords, job_title) ==
    LET ideal_profile == Get(benchmark_data, "ideal_profile", JDict(EmptyDict))
        ideal_skills == Get(benchmark_data, "ideal_skills", JList(<< >>))
        profile_summary == IF ideal_profile.t = "dict"
                           THEN Get(ideal_profile.v, "summary", JStr(""))
                           ELSE JStr("")
    IN  [summary |-> IF Truthy(profile_summary) THEN profile_summary
                     ELSE Fmt("AI-generated benchmark for", << job_title >>),
         keywords |-> keywords,
         rubric |-> EachRubricLine(Take(ideal_skills.v, 10)),
         idealProfile |-> IF ideal_profile.t = "dict" THEN ideal_profile
                          ELSE JDict(EmptyDict),
         idealSkills |-> ideal_skills,
         idealExperience |-> Get(benchmark_data, "ideal_experience", JList(<< >>)),
         scoringWeights |-> Get(benchmark_data, "scoring_weights", JDict(EmptyDict)),
         createdAt |-> JNull]

SkillOf(g) == Get(g, "skill", JStr(""))
EachSkillOf(s) == [i \in 1..Len(s) |-> SkillOf(s[i])]
HasSkill(g) == Truthy(Get(g, "skill", JNull))
StrengthLabel(x) == Get(x, "area", Get(x, "description", JStr("")))
EachStrengthLabel(s) == [i \in 1..Len(s) |-> StrengthLabel(s[i])]
RecLabel(r) == Get(r, "title", Get(r, "description", JStr("")))
EachRecLabel(s) == [i \in 1..Len(s) |-> RecLabel(s[i])]

GapRow(g) ==
    [dimension |-> Get(g, "skill", JStr("")),
     gap |-> Fmt("gap", << Get(g, "current_level", JStr("?")),
                          Get(g, "required_level", JStr("required")) >>),
     severity |-> MapSeverity(Get(g, "gap_severity", JStr("moderate")).v),
     suggestion |-> Get(g, "recommendation", JStr(""))]
EachGapRow(s) == [i \in 1..Len(s) |-> GapRow(s[i])]

\* missing_kw of _format_response
MissingKeywords(gap_analysis) ==
    EachSkillOf(
           SelectSeq(Get(gap_analysis, "skill_gaps", JList(<< >>)).v, HasSkill))

\* the "gaps" block of the response
FormatGaps(gap_analysis) ==
    [missingKeywords |-> MissingKeywords(gap_analysis),
     strengths |-> EachStrengthLabel(
                          Get(gap_analysis, "strengths", JList(<< >>)).v),
     recommendations |-> EachRecLabel(
                          Get(gap_analysis, "recommendations", JList(<< >>)).v),
     gaps |-> EachGapRow(Get(gap_analysis, "skill_gaps", JList(<< >>)).v),
     summary |-> Get(gap_analysis, "executive_summary", JStr("")),
     compatibility |-> Get(gap_analysis, "compatibility_score", JInt(50)),
     categoryScores |-> Get(gap_analysis, "category_scores", JDict(EmptyDict)),
     quickWins |-> Get(gap_analysis, "quick_wins", JList(<< >>)),
     interviewReadiness |-> Get(gap_analysis, "interview_readiness",
                                JDict(EmptyDict))]

ActivityOf(a) == Get(a, "activity", JStr(""))
EachActivityOf(s) == [i \in 1..Len(s) |-> ActivityOf(s[i])]

ResourceRow(r) ==
    [skill |-> Get(r, "skill_covered", Get(r, "skill", JStr(""))),
     title |-> Get(r, "title", JStr("")),
     provider |-> Get(r, "provider", JStr("")),
     timebox |-> Get(r, "duration", JStr("Self-paced")),
     url |-> Get(r, "url", JNull)]
EachResourceRow(s) == [i \in 1..Len(s) |-> ResourceRow(s[i])]

\* the "learningPlan" block of the response
FormatLearningPlan(roadmap) ==
    LET roadmap_data == Get(roadmap, "roadmap", JDict(EmptyDict)).v
        weekly_plans == Take(Get(roadmap_data, "weekly_plans", JList(<< >>)).v, 12)
        skill_dev == Take(Get(roadmap_data, "skill_development", JList(<< >>)).v, 6)
        resources == Take(Get(roadmap, "learning_resources", JList(<< >>)).v, 12)
    IN  [focus |-> EachSkillOf(SelectSeq(skill_dev, HasSkill)),
         plan |-> [i \in 1..Len(weekly_plans) |->
                     [week |-> Get(weekly_plans[i], "week", JInt(i)),
                      theme |-> Get(weekly_plans[i], "theme",
                                    Fmt("Week", << JInt(i) >>)),
                      outcomes |-> Get(weekly_plans[i], "goals", JList(<< >>)),
                      tasks |-> EachActivityOf(
                                  Get(weekly_plans[i], "activities",
                                      JList(<< >>)).v),
                      goals |-> Get(weekly_plans[i], "goals", JList(<< >>))]],
         resources |-> EachResourceRow(resources)]

\* the scores with a gaps score that is not kept from falling below 0
FormatScoresGapsUnfloored(compatibility, missing_kw) ==
    LET match_score == Min2(100, Max2(0, compatibility))
    IN  [match |-> match_score,
         atsReadiness |-> Min2(100, match_score + 15),
         recruiterScan |-> Min2(100, match_score + 10),
         evidenceStrength |-> 0,
         topFix |-> DeriveTopFix(missing_kw),
         benchmark |-> match_score,
         gaps |-> 100 - Len(missing_kw) * 8,
         cv |-> Min2(100, match_score + 20),
         coverLetter |-> Min2(100, match_score + 15),
         overall |-> match_score]

\* the scores with the compatibility taken as it comes, not clamped
FormatScoresUnclamped(compatibility, missing_kw) ==
    [match |-> compatibility,
     atsReadiness |-> Min2(100, compatibility + 15),
     recruiterScan |-> Min2(100, compatibility + 10),
     evidenceStrength |-> 0,
     topFix |-> DeriveTopFix(missing_kw),
     benchmark |-> compatibility,
     gaps |-> Max2(0, 100 - Len(missing_kw) * 8),
     cv |-> Min2(100, compatibility + 20),
     coverLetter |-> Min2(100, compatibility + 15),
     overall |-> compatibility]

\* the "scores" block of the response
FormatScores(compatibility, missing_kw) ==
    LET match_score == Min2(100, Max2(0, compatibility))
    IN  [match |-> match_score,
         atsReadiness |-> Min2(100, match_score + 15),
         recruiterScan |-> Min2(100, match_score + 10),
         evidenceStrength |-> 0,
         topFix |-> DeriveTopFix(missing_kw),
         benchmark |-> match_score,
         gaps |-> Max2(0, 100 - Len(missing_kw) * 8),
         cv |-> Min2(100, match_score + 20),
         coverLetter |-> Min2(100, match_score + 15),
         overall |-> match_score]

\* the "scorecard" block of the response
FormatScorecard(scores) ==
    [overall |-> scores.overall,
     dimensions |->
        << [name |-> "Match", score |-> scores.match,
            feedback |-> Fmt("% keyword alignment", << JInt(scores.match) >>)],
           [name |-> "ATS Readiness", score |-> scores.atsReadiness,
            feedback |-> Fmt("% ATS-optimized", << JInt(scores.atsReadiness) >>)],
           [name |-> "Recruiter Scan", score |-> scores.recruiterScan,
            feedback |-> Fmt("% scan-friendly", << JInt(scores.recruiterScan) >>)],
           [name |-> "Evidence Strength", score |-> scores.evidenceStrength,
            feedback |-> JStr("Add evidence to boost this score")] >>,
     match |-> scores.match,
     atsReadiness |-> scores.atsReadiness,
     recruiterScan |-> scores.recruiterScan,
     evidenceStrength |-> scores.evidenceStrength,
     topFix |-> scores.topFix,
     updatedAt |-> JNull]

\* _format_response
FormatResponse(benchmark_data, gap_analysis, roadmap_, cv, cl, ps, portfolio, validation_, keywords_, job_title) ==
    LET scores == FormatScores(
                      Get(gap_analysis, "compatibility_score", JInt(50)).v,
                      MissingKeywords(gap_analysis))
    IN  [benchmark |-> FormatBenchmark(benchmark_data, keywords_, job_title),
         gaps |-> FormatGaps(gap_analysis),
         learningPlan |-> FormatLearningPlan(roadmap_),
         cvHtml |-> cv,
         coverLetterHtml |-> cl,
         personalStatementHtml |-> ps,
         portfolioHtml |-> portfolio,
         validation |-> validation_,
         scorecard |-> FormatScorecard(scores),
         scores |-> scores]


\* ------------------------------------------ generate: keyword extraction

\* the KNOWN vocabulary
Known ==
    {"javascript", "typescript", "python", "java", "go", "rust", "ruby", "php",
     "swift", "kotlin", "react", "angular", "vue", "svelte", "next", "nuxt",
     "node", "express", "django", "flask", "fastapi", "spring",
     "sql", "postgres", "mysql", "mongodb", "redis", "elasticsearch",
     "aws", "gcp", "azure", "docker", "kubernetes", "terraform",
     "git", "github", "gitlab", "jenkins", "ci", "cd",
     "graphql", "rest", "grpc", "microservices",
     "tailwind", "css", "html", "sass",
     "jest", "playwright", "cypress", "selenium",
     "figma", "agile", "scrum", "kanban",
     "machine", "learning", "ai", "ml", "nlp",
     "linux", "bash", "shell"}

\* w.strip(".,;:!?()[]{}\"'").lower() on the words of the modelled descriptions
CleanWord(w) ==
    CASE w = "React" -> "react"
      [] w = "react," -> "react"
      [] w = "Postgres." -> "postgres"
      [] w = "(python)" -> "python"
      [] w = "PostgreSQL" -> "postgresql"
      [] OTHER -> w

\* the loop without its `seen` set
RECURSIVE FoundFromUnseen(_, _)
FoundFromUnseen(found, words) ==
    IF words = << >> THEN found
    ELSE LET clean == CleanWord(Head(words))
         IN  IF clean \in Known
             THEN FoundFromUnseen(Append(found, JStr(clean)), Tail(words))
             ELSE FoundFromUnseen(found, Tail(words))

RECURSIVE FoundFrom(_, _)
FoundFrom(found, words) ==
    IF words = << >> THEN found
    ELSE LET clean == CleanWord(Head(words))
         IN  IF clean \in Known /\ \A i \in 1..Len(found) : found[i] # JStr(clean)
             THEN FoundFrom(Append(found, JStr(clean)), Tail(words))
             ELSE FoundFrom(found, Tail(words))

\* _extract_keywords_from_jd; jd_text is held as its whitespace-separated words
ExtractKeywordsFromJd(jd_text) == Take(FoundFrom(<< >>, jd_text), 25)

NameOf(x) == Get(x, "name", JStr(""))
EachNameOf(s) == [i \in 1..Len(s) |-> NameOf(s[i])]
HasName(x) == Truthy(Get(x, "name", JNull))

\* the keywords of generate_pipeline: the benchmark's named skills, else the fallback
Keywords(benchmark_data, jd_text) ==
    LET named == EachNameOf(
                   SelectSeq(Get(benchmark_data, "ideal_skills", JList(<< >>)).v,
                             HasName))
    IN  IF Len(named) > 0 THEN named ELSE ExtractKeywordsFromJd(jd_text)


\* ---------------------------------------------------------------- the state

VARIABLES
    req,            \* the PipelineRequest
    pc,             \* where generate_pipeline stands
    call,           \* per stage: the state of its completion call
    ret,            \* per stage: what the stage returned
    raised,         \* the exception delivered to the pipeline's pending await
    user_profile, benchmark_data, keywords, gap_analysis,
    cv_html, cl_html, roadmap, ps_html, portfolio_html, validation,
    response,       \* the PipelineResponse returned
    http,           \* the status code of the reply, 0 while there is none
    detail,         \* the detail of the HTTPException
    gapPc, gapIn, gapOut, gapTwice,  \* _validate_result applied on its own
    fnPc, fnIn, fnOut,               \* another pure function applied on its own
    benchPc, benchCall, benchRet, benchOut,  \* build_complete_benchmark
    arrived,        \* the stages in the order in which their calls settled
    made            \* how many backend attempts have ended

locals ==
    << user_profile, benchmark_data, keywords, gap_analysis, cv_html, cl_html,
       roadmap, ps_html, portfolio_html, validation >>
outcome == << response, http, detail >>
gapVars == << gapPc, gapIn, gapOut, gapTwice >>
fnVars == << fnPc, fnIn, fnOut >>
benchVars == << benchPc, benchCall, benchRet, benchOut >>
logVars == << arrived, made >>
vars == << req, pc, call, ret, raised, locals, outcome, gapVars, fnVars, benchVars, logVars >>

\* stop_after_attempt(3)
MaxAttempts == 3

\* longest resume_text of a modelled request
MaxResumeLen == 2

Stages ==
    {"profiler", "benchmark", "gap", "cv", "cl", "roadmap", "ps", "portfolio",
     "validator"}

\* the stages that call AIClient.complete_json; the others call AIClient.complete
JsonStages == {"profiler", "benchmark", "gap", "roadmap", "validator"}

Phase3Calls == {"cv", "cl", "roadmap"}
Phase4Calls == {"ps", "portfolio"}

\* a local that is not bound yet
Unset == [t |-> "unset", v |-> 0]

\* an exception object, named after the stage that raised it
PyExc(s) == [t |-> "exc", v |-> s]
IsExc(x) == x.t = "exc"

\* str.strip() on a text of blanks " " and other characters
RECURSIVE LStrip(_)
LStrip(s) == IF s # << >> /\ Head(s) = " " THEN LStrip(Tail(s)) ELSE s

RECURSIVE RStrip(_)
RStrip(s) ==
    IF s # << >> /\ s[Len(s)] = " " THEN RStrip(SubSeq(s, 1, Len(s) - 1)) ELSE s

Strip(s) == RStrip(LStrip(s))

\* `if req.resume_text.strip():`
HasResume(r) == Strip(r.resume_text) # << >>

\* the calls Phase 1 gathers
Phase1Calls == IF HasResume(req) THEN {"profiler", "benchmark"} ELSE {"benchmark"}

\* gather(..., return_exceptions=...) of Phase 3 and of Phase 4
Phase3ReturnExceptions == FALSE
\* Phase 4 gathered the way Phase 3 is
Phase4ReturnExceptionsOff == FALSE
Phase4ReturnExceptions == TRUE

\* the calls the pipeline is awaiting
Awaited ==
    CASE pc = "phase1" -> Phase1Calls
      [] pc = "phase2" -> {"gap"}
      [] pc = "phase3" -> Phase3Calls
      [] pc = "phase4" -> Phase4Calls
      [] pc = "phase5" -> {"validator"}
      [] OTHER -> {}

\* whether the pending await hands exceptions back as values
ReturnExceptions ==
    CASE pc = "phase3" -> Phase3ReturnExceptions
      [] pc = "phase4" -> Phase4ReturnExceptions
      [] OTHER -> FALSE

Idle == [status |-> "idle", attempts |-> 0, err |-> "none"]
Issued == [status |-> "running", attempts |-> 1, err |-> "none"]

\* a call that returned, or raised for the given cause; its retry state is gone
Done == [status |-> "done", attempts |-> 0, err |-> "none"]
Failed(cause) == [status |-> "failed", attempts |-> 0, err |-> cause]

Settled(s) == call[s].status \in {"done", "failed"}
AllDone(S) == \A s \in S : call[s].status = "done"
AllSettled(S) == \A s \in S : Settled(s)

\* an await on gather resumes: with every result, or with the first exception
GatherReady(S, returnExceptions) ==
    IF returnExceptions THEN AllSettled(S) ELSE raised # "none" \/ AllDone(S)

\* what gather hands back for one call
GatherValue(s) == IF call[s].status = "done" THEN ret[s] ELSE PyExc(s)

\* ----------------------------------------------------- what the backend says

\* the texts of the modelled requests
Chars == {" ", "r"}
Texts == UNION {[1..n -> Chars] : n \in 0..MaxResumeLen}
JdSamples == { << "React", "the", "react," >>, << "the" >> }

RawProfiles ==
    { EmptyDict,
      [name |-> JStr("Ann"),
       skills |-> JList(<< [name |-> JStr("python"), level |-> JStr("Expert")] >>)] }

RawBenchmarks ==
    { EmptyDict,
      [ideal_profile |-> JDict([summary |-> JStr("ideal")]),
       ideal_skills |-> JList(<< [name |-> JStr("aws"),
                                  importance |-> JStr("critical")] >>)] }

RawGaps ==
    { [compatibility_score |-> JNull],
      [compatibility_score |-> JInt(150),
       skill_gaps |-> JList(<< [skill |-> JStr("aws")] >>),
       recommendations |-> JList(<< [title |-> JStr("b")],
                                    [title |-> JStr("a"), priority |-> JInt(1)] >>)] }

RawRoadmaps ==
    { EmptyDict,
      [roadmap |-> JDict([weekly_plans |-> JList(<< [theme |-> JStr("basics")] >>),
                          skill_development |-> JList(<< [skill |-> JStr("aws")] >>)]),
       learning_resources |-> JList(<< [title |-> JStr("course")] >>)] }

RawVerdicts ==
    { [issues |-> JNull],
      [is_valid |-> JBool(TRUE), quality_score |-> JInt(80),
       issues |-> JList(<< [severity |-> JStr("critical")] >>)] }

\* what a successful backend attempt of a stage's call can carry
RawOutputs(s) ==
    CASE s = "profiler" -> RawProfiles
      [] s = "benchmark" -> RawBenchmarks
      [] s = "gap" -> RawGaps
      [] s = "roadmap" -> RawRoadmaps
      [] s = "validator" -> RawVerdicts
      [] OTHER -> {"", s}

\* the stage's own code raises on the parsed answer
StageRaises(s, raw) ==
    CASE s = "profiler" -> ProfileValidateRaises(raw)
      [] s = "gap" -> GapValidateRaises(raw)
      [] s = "validator" -> ValidateDocumentRaises(raw)
      [] OTHER -> FALSE

\* what the stage returns
StageResult(s, raw) ==
    CASE s = "profiler" -> JDict(ProfileValidate(raw))
      [] s = "benchmark" -> JDict(raw)
      [] s = "gap" -> JDict(GapValidate(raw))
      [] s = "roadmap" -> JDict(RoadmapValidate(raw))
      [] s = "validator" -> ValidateDocument(raw)
      [] OTHER -> JStr(raw)


\* -------------------------------------------------------------- the pipeline

LocalsUnset ==
    /\ user_profile = Unset /\ benchmark_data = Unset /\ keywords = Unset
    /\ gap_analysis = Unset /\ cv_html = Unset /\ cl_html = Unset
    /\ roadmap = Unset /\ ps_html = Unset /\ portfolio_html = Unset
    /\ validation = Unset

GapIdle == gapPc = "off" /\ gapIn = EmptyDict /\ gapOut = Unset /\ gapTwice = Unset

FnIdle == fnPc = "off" /\ fnIn = Unset /\ fnOut = Unset

\* the six sub-generations of build_complete_benchmark, in the order of its awaits
BenchSteps ==
    << "ideal_profile", "ideal_cv", "ideal_cover_letter", "ideal_portfolio",
       "ideal_case_studies", "ideal_action_plan" >>

\* the sub-generations that call AIClient.complete_json
BenchJsonSteps == {1, 4, 5, 6}

BenchIdle ==
    /\ benchPc = "off"
    /\ benchCall = [i \in DOMAIN BenchSteps |-> Idle]
    /\ benchRet = [i \in DOMAIN BenchSteps |-> Unset]
    /\ benchOut = Unset

\* nothing is recorded about the calls
LogOff == arrived = << >> /\ made = 0

Init ==
    /\ req \in [job_title : {"Engineer"}, jd_text : JdSamples, resume_text : Texts]
    /\ pc = "start"
    /\ call = [s \in Stages |-> Idle]
    /\ ret = [s \in Stages |-> Unset]
    /\ raised = "none"
    /\ LocalsUnset
    /\ response = Unset /\ http = 0 /\ detail = "none"
    /\ GapIdle
    /\ FnIdle
    /\ BenchIdle
    /\ LogOff

\* gather / await: the calls of S start, each with its first backend attempt
Issue(S) == call' = [s \in Stages |-> IF s \in S THEN Issued ELSE call[s]]

\* lines 60-75: Phase 1 is entered; without a resume the profile is {}
Start ==
    /\ pc = "start"
    /\ pc' = "phase1"
    /\ Issue(Phase1Calls)
    /\ user_profile' = IF HasResume(req) THEN user_profile ELSE JDict(EmptyDict)
    /\ UNCHANGED << req, ret, raised, benchmark_data, keywords, gap_analysis,
                    cv_html, cl_html, roadmap, ps_html, portfolio_html,
                    validation, outcome, gapVars, fnVars, benchVars, logVars >>

\* a failure that is never handed to the pending await
DeliverLost(s) == raised' = raised

\* a failure of call s reaches the pipeline if it awaits s and the await raises
Deliver(s) ==
    raised' = IF s \in Awaited /\ ~ReturnExceptions /\ raised = "none"
              THEN s ELSE raised

\* a failed backend attempt surfacing at once, with no retry
AttemptFailsAtOnce(s, cause) ==
    /\ call[s].status = "running"
    /\ cause = "parse" => s \in JsonStages
    /\ call' = [call EXCEPT ![s] = Failed(cause)]
    /\ Deliver(s)
    /\ UNCHANGED << req, pc, ret, locals, outcome, gapVars, fnVars, benchVars, logVars >>

\* a failed backend attempt retried once more than stop_after_attempt(3) allows
AttemptFailsCallOnceMore(s, cause) ==
    /\ call[s].status = "running"
    /\ cause = "parse" => s \in JsonStages
    /\ IF call[s].attempts <= MaxAttempts
       THEN /\ call' = [call EXCEPT ![s].status = "waiting", ![s].err = cause]
            /\ UNCHANGED raised
       ELSE /\ call' = [call EXCEPT ![s] = Failed(cause)]
            /\ Deliver(s)
    /\ UNCHANGED << req, pc, ret, locals, outcome, gapVars, fnVars, benchVars >>

\* a backend attempt fails: the request raised, or complete_json could not parse
\* the answer; tenacity sleeps and retries, or gives up after the last attempt
AttemptFailsCall(s, cause) ==
    /\ call[s].status = "running"
    /\ cause = "parse" => s \in JsonStages
    /\ IF call[s].attempts < MaxAttempts
       THEN /\ call' = [call EXCEPT ![s].status = "waiting", ![s].err = cause]
            /\ UNCHANGED raised
       ELSE /\ call' = [call EXCEPT ![s] = Failed(cause)]
            /\ Deliver(s)
    /\ UNCHANGED << req, pc, ret, locals, outcome, gapVars, fnVars, benchVars >>

AttemptFails(s, cause) == AttemptFailsCall(s, cause) /\ UNCHANGED logVars

\* the backoff is over: the next backend attempt
RetryAttempt(s) ==
    /\ call[s].status = "waiting"
    /\ call' = [call EXCEPT ![s].status = "running",
                            ![s].attempts = call[s].attempts + 1]
    /\ UNCHANGED << req, pc, ret, raised, locals, outcome, gapVars, fnVars, benchVars, logVars >>

\* a backend attempt succeeds and the stage finishes on its answer
AttemptSucceedsCall(s, raw) ==
    /\ call[s].status = "running"
    /\ IF StageRaises(s, raw)
       THEN /\ call' = [call EXCEPT ![s] = Failed("stage")]
            /\ Deliver(s)
            /\ UNCHANGED ret
       ELSE /\ call' = [call EXCEPT ![s] = Done]
            /\ ret' = [ret EXCEPT ![s] = StageResult(s, raw)]
            /\ UNCHANGED raised
    /\ UNCHANGED << req, pc, locals, outcome, gapVars, fnVars, benchVars >>

AttemptSucceeds(s, raw) == AttemptSucceedsCall(s, raw) /\ UNCHANGED logVars

\* Phase 1 taking its results in the order in which the calls settled
Phase1JoinAsCompleted ==
    /\ pc = "phase1"
    /\ raised = "none"
    /\ GatherReady(Phase1Calls, FALSE)
    /\ user_profile' = IF HasResume(req) THEN ret[arrived[1]] ELSE user_profile
    /\ benchmark_data' = IF HasResume(req) THEN ret[arrived[2]] ELSE ret["benchmark"]
    /\ keywords' = JList(Keywords(ret["benchmark"].v, req.jd_text))
    /\ Issue({"gap"})
    /\ pc' = "phase2"
    /\ UNCHANGED << req, ret, raised, gap_analysis, cv_html, cl_html, roadmap,
                    ps_html, portfolio_html, validation, outcome, gapVars, fnVars, benchVars, logVars >>

\* lines 65-93: the Phase 1 await resumes with its results; Phase 2 is entered
Phase1Join ==
    /\ pc = "phase1"
    /\ raised = "none"
    /\ GatherReady(Phase1Calls, FALSE)
    /\ user_profile' = IF HasResume(req) THEN ret["profiler"] ELSE user_profile
    /\ benchmark_data' = ret["benchmark"]
    /\ keywords' = JList(Keywords(ret["benchmark"].v, req.jd_text))
    /\ Issue({"gap"})
    /\ pc' = "phase2"
    /\ UNCHANGED << req, ret, raised, gap_analysis, cv_html, cl_html, roadmap,
                    ps_html, portfolio_html, validation, outcome, gapVars, fnVars, benchVars, logVars >>

\* Phase 2 with a failed gap analysis replaced by {} and the pipeline going on
Phase2JoinAbsorbing ==
    /\ pc = "phase2"
    /\ Settled("gap")
    /\ gap_analysis' = IF call["gap"].status = "done" THEN ret["gap"]
                       ELSE JDict(EmptyDict)
    /\ raised' = "none"
    /\ Issue(Phase3Calls)
    /\ pc' = "phase3"
    /\ UNCHANGED << req, ret, user_profile, benchmark_data, keywords,
                    cv_html, cl_html, roadmap, ps_html, portfolio_html,
                    validation, outcome, gapVars, fnVars, benchVars, logVars >>

\* lines 91-134: the gap analysis is back; Phase 3 is entered
Phase2Join ==
    /\ pc = "phase2"
    /\ raised = "none"
    /\ GatherReady({"gap"}, FALSE)
    /\ gap_analysis' = ret["gap"]
    /\ Issue(Phase3Calls)
    /\ pc' = "phase3"
    /\ UNCHANGED << req, ret, raised, user_profile, benchmark_data, keywords,
                    cv_html, cl_html, roadmap, ps_html, portfolio_html,
                    validation, outcome, gapVars, fnVars, benchVars, logVars >>

\* lines 143-151: a result that is an exception becomes its neutral default
OrDefault(x, default) == IF IsExc(x) THEN default ELSE x

\* Phase 3 going on as soon as one of its calls has settled
Phase3JoinOnFirst ==
    /\ pc = "phase3"
    /\ raised = "none"
    /\ \E s \in Phase3Calls : Settled(s)
    /\ cv_html' = OrDefault(GatherValue("cv"), JStr(""))
    /\ cl_html' = OrDefault(GatherValue("cl"), JStr(""))
    /\ roadmap' = OrDefault(GatherValue("roadmap"), JDict(EmptyDict))
    /\ ps_html' = JStr("")
    /\ portfolio_html' = JStr("")
    /\ Issue(Phase4Calls)
    /\ pc' = "phase4"
    /\ UNCHANGED << req, ret, raised, user_profile, benchmark_data, keywords,
                    gap_analysis, validation, outcome, gapVars, fnVars, benchVars, logVars >>

\* lines 115-175: the Phase 3 await resumes with its results; Phase 4 is entered
Phase3Join ==
    /\ pc = "phase3"
    /\ raised = "none"
    /\ GatherReady(Phase3Calls, Phase3ReturnExceptions)
    /\ cv_html' = OrDefault(GatherValue("cv"), JStr(""))
    /\ cl_html' = OrDefault(GatherValue("cl"), JStr(""))
    /\ roadmap' = OrDefault(GatherValue("roadmap"), JDict(EmptyDict))
    /\ ps_html' = JStr("")
    /\ portfolio_html' = JStr("")
    /\ Issue(Phase4Calls)
    /\ pc' = "phase4"
    /\ UNCHANGED << req, ret, raised, user_profile, benchmark_data, keywords,
                    gap_analysis, validation, outcome, gapVars, fnVars, benchVars, logVars >>

\* lines 177-185: `x if isinstance(x, str) else ""`, an exception leaving ""
StrOrEmpty(x) == IF x.t = "str" THEN x ELSE JStr("")

\* lines 157-203: the Phase 4 await resumes, with its results or (line 186)
\* with an exception that is logged; Phase 5 is entered
Phase4Join ==
    /\ pc = "phase4"
    /\ GatherReady(Phase4Calls, Phase4ReturnExceptions)
    /\ IF raised # "none"
       THEN UNCHANGED << ps_html, portfolio_html >>
       ELSE /\ ps_html' = StrOrEmpty(GatherValue("ps"))
            /\ portfolio_html' = StrOrEmpty(GatherValue("portfolio"))
    /\ raised' = "none"
    /\ validation' = EmptyDict
    /\ Issue({"validator"})
    /\ pc' = "phase5"
    /\ UNCHANGED << req, ret, user_profile, benchmark_data, keywords,
                    gap_analysis, cv_html, cl_html, roadmap, outcome, gapVars, fnVars, benchVars, logVars >>

\* lines 204-208: the "cv" entry of the validation block
CvVerdict(verdict) ==
    [valid |-> verdict.v[1],
     qualityScore |-> Get(verdict.v[2].v, "quality_score", JInt(0)),
     issues |-> Len(Get(verdict.v[2].v, "issues", JList(<< >>)).v)]

\* the response formatted by popping the score out of the gap analysis
Phase5JoinConsuming ==
    /\ pc = "phase5"
    /\ Settled("validator")
    /\ LET checked == IF call["validator"].status = "done"
                      THEN [cv |-> CvVerdict(ret["validator"])]
                      ELSE validation
       IN  /\ validation' = checked
           /\ response' = FormatResponse(
                  benchmark_data.v, gap_analysis.v,
                  IF roadmap.t = "dict" THEN roadmap.v ELSE EmptyDict,
                  IF cv_html.t = "str" THEN cv_html ELSE JStr(""),
                  IF cl_html.t = "str" THEN cl_html ELSE JStr(""),
                  ps_html, portfolio_html, checked, keywords, req.job_title)
    /\ gap_analysis' = JDict([k \in DOMAIN gap_analysis.v \ {"compatibility_score"} |->
                                gap_analysis.v[k]])
    /\ raised' = "none"
    /\ http' = 200
    /\ pc' = "done"
    /\ UNCHANGED << req, call, ret, user_profile, benchmark_data, keywords,
                    cv_html, cl_html, roadmap, ps_html,
                    portfolio_html, detail, gapVars, fnVars, benchVars, logVars >>

\* lines 199-228: the validator's call settles, its exception (line 210) being
\* logged; the response is formatted and returned
Phase5Join ==
    /\ pc = "phase5"
    /\ Settled("validator")
    /\ LET checked == IF call["validator"].status = "done"
                      THEN [cv |-> CvVerdict(ret["validator"])]
                      ELSE validation
       IN  /\ validation' = checked
           /\ response' = FormatResponse(
                  benchmark_data.v, gap_analysis.v,
                  IF roadmap.t = "dict" THEN roadmap.v ELSE EmptyDict,
                  IF cv_html.t = "str" THEN cv_html ELSE JStr(""),
                  IF cl_html.t = "str" THEN cl_html ELSE JStr(""),
                  ps_html, portfolio_html, checked, keywords, req.job_title)
    /\ raised' = "none"
    /\ http' = 200
    /\ pc' = "done"
    /\ UNCHANGED << req, call, ret, user_profile, benchmark_data, keywords,
                    gap_analysis, cv_html, cl_html, roadmap, ps_html,
                    portfolio_html, detail, gapVars, fnVars, benchVars, logVars >>

\* the outer handler reached from Phase 5 as well
AbortFromValidation ==
    /\ pc \in {"phase1", "phase2", "phase3", "phase5"}
    /\ raised # "none"
    /\ pc' = "failed"
    /\ http' = 500
    /\ detail' = raised
    /\ UNCHANGED << req, call, ret, raised, locals, response, gapVars, fnVars, benchVars, logVars >>

\* lines 230-239: an exception of Phase 1, 2 or 3 reaches the outer handler
Abort ==
    /\ pc \in {"phase1", "phase2", "phase3"}
    /\ raised # "none"
    /\ pc' = "failed"
    /\ http' = 500
    /\ detail' = raised
    /\ UNCHANGED << req, call, ret, raised, locals, response, gapVars, fnVars, benchVars, logVars >>

Next ==
    \/ Start
    \/ \E s \in Stages, cause \in {"backend", "parse"} : AttemptFails(s, cause)
    \/ \E s \in Stages : RetryAttempt(s)
    \/ \E s \in Stages : \E raw \in RawOutputs(s) : AttemptSucceeds(s, raw)
    \/ Phase1Join
    \/ Phase2Join
    \/ Phase3Join
    \/ Phase4Join
    \/ Phase5Join
    \/ Abort

Spec == Init /\ [][Next]_vars

\* the event loop runs whatever is ready and every backend attempt settles: the
\* request does not stop while a step is possible
SpecLive == Init /\ [][Next]_vars /\ WF_vars(Next)


\* ------------------------------- GapAnalyzerChain._validate_result on its own

RecTitles == {"a", "b"}
RecPriorities == {1, 99, 100}

\* the recommendations the backend is made to return: with or without a priority
RecSamples ==
    {[title |-> JStr(x)] : x \in RecTitles}
    \cup {[title |-> JStr(x), priority |-> JInt(p)] : x \in RecTitles, p \in RecPriorities}

RecLists == UNION {[1..n -> RecSamples] : n \in 0..MaxRecs}

\* compatibility_score as the backend returns it; null is no number
ScoreSamples == {JNull, JInt(-5), JInt(0), JInt(37), JInt(100), JInt(150)}

\* a full answer of the backend, every key of the prompt's schema present
FullGap ==
    [k \in GapKeys \ {"compatibility_score", "recommendations"} |->
        CASE k = "readiness_level" -> JStr("competitive")
          [] k = "executive_summary" -> JStr("summary")
          [] k = "category_scores" -> JDict([technical_skills |-> JInt(70)])
          [] k = "interview_readiness" -> JDict([ready_to_interview |-> JBool(TRUE)])
          [] k = "skill_gaps" -> JList(<< [skill |-> JStr("aws")] >>)
          [] k = "strengths" -> JList(<< [area |-> JStr("python")] >>)
          [] OTHER -> JList(<< JStr(k) >>)]

\* the list and dict fields of a GapAnalysis
OptionalCollections == GapKeys \ {"compatibility_score", "readiness_level", "executive_summary"}

\* an answer of the backend that spells its empty collections as null
NullGap == [k \in OptionalCollections \ {"recommendations"} |-> JNull]

\* d and e together, e winning
Merged(d, e) == [k \in (DOMAIN d) \cup (DOMAIN e) |-> IF k \in DOMAIN e THEN e[k] ELSE d[k]]

\* the parsed answers _validate_result is applied to
GapInputs ==
    { Merged(Merged(base, score), recs) :
        base \in {EmptyDict, FullGap, NullGap},
        score \in {EmptyDict} \cup {[compatibility_score |-> x] : x \in ScoreSamples},
        recs \in {EmptyDict} \cup {[recommendations |-> JList(l)] : l \in RecLists} }

InitGap ==
    /\ req = [job_title |-> "Engineer", jd_text |-> << >>, resume_text |-> << >>]
    /\ pc = "start"
    /\ call = [s \in Stages |-> Idle]
    /\ ret = [s \in Stages |-> Unset]
    /\ raised = "none"
    /\ LocalsUnset
    /\ response = Unset /\ http = 0 /\ detail = "none"
    /\ gapPc = "parsed"
    /\ gapIn \in GapInputs
    /\ gapOut = Unset
    /\ gapTwice = Unset
    /\ FnIdle
    /\ BenchIdle
    /\ LogOff

\* analyze_gaps line 207: the parsed answer is normalised, or the call raises
GapValidateOnce ==
    /\ gapPc = "parsed"
    /\ IF GapValidateRaises(gapIn)
       THEN gapPc' = "raised" /\ UNCHANGED gapOut
       ELSE gapPc' = "once" /\ gapOut' = JDict(GapValidate(gapIn))
    /\ UNCHANGED << req, pc, call, ret, raised, locals, outcome, gapIn, gapTwice, fnVars, benchVars, logVars >>

\* the normalised result is normalised again
GapValidateTwice ==
    /\ gapPc = "once"
    /\ ~GapValidateRaises(gapOut.v)
    /\ gapTwice' = JDict(GapValidate(gapOut.v))
    /\ gapPc' = "twice"
    /\ UNCHANGED << req, pc, call, ret, raised, locals, outcome, gapIn, gapOut, fnVars, benchVars, logVars >>

NextGap == GapValidateOnce \/ GapValidateTwice

SpecGap == InitGap /\ [][NextGap]_vars

\* ------------------------------ the pipeline with a record of its calls

\* one request with a resume, so that both Phase 1 calls are made
InitLog == Init /\ req.resume_text = << "r" >> /\ req.jd_text = << "the" >>

\* a backend attempt fails; once the call has given up it is noted as settled
AttemptFailsLogged(s, cause) ==
    /\ AttemptFailsCall(s, cause)
    /\ arrived' = IF call'[s].status = "failed" THEN Append(arrived, s) ELSE arrived
    /\ UNCHANGED made

\* a backend attempt succeeds and the call is noted as settled
AttemptSucceedsLogged(s, raw) ==
    /\ AttemptSucceedsCall(s, raw)
    /\ arrived' = Append(arrived, s)
    /\ UNCHANGED made

NextOrder ==
    \/ Start
    \/ \E s \in Stages, cause \in {"backend", "parse"} : AttemptFailsLogged(s, cause)
    \/ \E s \in Stages : RetryAttempt(s)
    \/ \E s \in Stages : \E raw \in RawOutputs(s) : AttemptSucceedsLogged(s, raw)
    \/ Phase1Join
    \/ Phase2Join
    \/ Phase3Join
    \/ Phase4Join
    \/ Phase5Join
    \/ Abort

\* the pipeline with the order in which its calls settle
SpecOrder == InitLog /\ [][NextOrder]_vars

\* a backend attempt fails and is counted
AttemptFailsCounted(s, cause) ==
    /\ AttemptFailsCall(s, cause)
    /\ made' = made + 1
    /\ UNCHANGED arrived

\* a backend attempt succeeds and is counted
AttemptSucceedsCounted(s, raw) ==
    /\ AttemptSucceedsCall(s, raw)
    /\ made' = made + 1
    /\ UNCHANGED arrived

NextCount ==
    \/ Start
    \/ \E s \in Stages, cause \in {"backend", "parse"} : AttemptFailsCounted(s, cause)
    \/ \E s \in Stages : RetryAttempt(s)
    \/ \E s \in Stages : \E raw \in RawOutputs(s) : AttemptSucceedsCounted(s, raw)
    \/ Phase1Join
    \/ Phase2Join
    \/ Phase3Join
    \/ Phase4Join
    \/ Phase5Join
    \/ Abort

\* the pipeline with the number of backend attempts it has made
SpecCount == InitLog /\ [][NextCount]_vars



\* ------------------------------------- the pure functions, each on its own

\* the pipeline is not running
PipelineOff ==
    /\ req = [job_title |-> "Engineer", jd_text |-> << >>, resume_text |-> << >>]
    /\ pc = "start"
    /\ call = [s \in Stages |-> Idle]
    /\ ret = [s \in Stages |-> Unset]
    /\ raised = "none"
    /\ LocalsUnset
    /\ response = Unset /\ http = 0 /\ detail = "none"
    /\ GapIdle
    /\ LogOff

pipelineOnly == << req, pc, call, ret, raised, locals, outcome, gapVars, logVars >>
pipelineVars == << pipelineOnly, benchVars, logVars >>

\* longest issues list of a modelled verdict
MaxIssues == 2

\* the issues the backend is made to report: with or without a severity
IssueSamples ==
    {EmptyDict} \cup {[severity |-> JStr(x)] : x \in {"critical", "major"}}

IssueLists == UNION {[1..n -> IssueSamples] : n \in 0..MaxIssues}

\* the parsed verdicts validate_document works on
VerdictInputs ==
    { Merged(Merged(valid, issues), score) :
        valid \in {EmptyDict} \cup {[is_valid |-> JBool(b)] : b \in BOOLEAN},
        issues \in {EmptyDict, [issues |-> JNull]}
                    \cup {[issues |-> JList(l)] : l \in IssueLists},
        score \in {EmptyDict, [quality_score |-> JInt(80)]} }

InitValidator ==
    /\ PipelineOff
    /\ BenchIdle
    /\ fnPc = "verdict parsed"
    /\ fnIn \in VerdictInputs
    /\ fnOut = Unset

\* validate_document lines 131-142: the verdict is returned, or the scan of a
\* null issues list raises
ValidateDocumentReturns ==
    /\ fnPc = "verdict parsed"
    /\ IF ValidateDocumentRaises(fnIn)
       THEN fnPc' = "verdict raised" /\ UNCHANGED fnOut
       ELSE fnPc' = "verdict returned" /\ fnOut' = ValidateDocument(fnIn)
    /\ UNCHANGED << pipelineVars, fnIn >>

NextValidator == ValidateDocumentReturns

SpecValidator == InitValidator /\ [][NextValidator]_vars


\* longest job description, in words, built from JdWords
MaxWords == 3

\* words of the modelled job descriptions: vocabulary terms in other case or
\* next to punctuation, words that merely contain a term, and a plain word
JdWords ==
    {"React", "react,", "Postgres.", "PostgreSQL", "reactive", "the", "(python)"}

\* a job description naming more vocabulary terms than the cap lets through
LongJd ==
    << "python", "the", "java", "go", "rust", "ruby", "php", "swift", "kotlin",
       "react", "angular", "vue", "svelte", "next", "nuxt", "node", "express",
       "flask", "spring", "sql", "postgres", "redis", "aws", "gcp", "azure",
       "docker", "python", "kubernetes", "terraform", "git" >>

JdTexts ==
    UNION {[1..n -> JdWords] : n \in 0..MaxWords} \cup {LongJd, Reverse(LongJd)}

InitKeywords ==
    /\ PipelineOff
    /\ BenchIdle
    /\ fnPc = "jd given"
    /\ fnIn \in JdTexts
    /\ fnOut = Unset

\* generate_pipeline line 87: the fallback is applied to the job description
ExtractKeywordsReturns ==
    /\ fnPc = "jd given"
    /\ fnPc' = "keywords returned"
    /\ fnOut' = JList(ExtractKeywordsFromJd(fnIn))
    /\ UNCHANGED << pipelineVars, fnIn >>

NextKeywords == ExtractKeywordsReturns

SpecKeywords == InitKeywords /\ [][NextKeywords]_vars


\* how far beyond 0..100 a modelled compatibility_score lies
MaxOver == 20

\* most skill gaps in a modelled gap analysis
MaxGaps == 13

\* skill gaps naming a missing keyword, and one that names none
SkillGapLists ==
    {[i \in 1..n |-> [skill |-> JStr("aws")]] : n \in 1..MaxGaps}
    \cup {<< [skill |-> JStr("aws")], [severity |-> JStr("major")] >>}

\* the gap analyses _format_response is given: any integer score, without skill
\* gaps or with some
FormatGapInputs ==
    { Merged([compatibility_score |-> JInt(c)], gaps) :
        c \in (0 - MaxOver)..(100 + MaxOver),
        gaps \in {EmptyDict} \cup {[skill_gaps |-> JList(l)] : l \in SkillGapLists} }

InitFormat ==
    /\ PipelineOff
    /\ BenchIdle
    /\ fnPc = "formatting"
    /\ fnIn \in FormatGapInputs
    /\ fnOut = << >>

\* generate_pipeline lines 214-225: _format_response is called, and called
\* once more with the same arguments
FormatResponseReturns ==
    /\ fnPc = "formatting"
    /\ fnOut' = Append(fnOut,
                  FormatResponse(EmptyDict, fnIn, EmptyDict, JStr(""), JStr(""),
                                 JStr(""), JStr(""), EmptyDict, JList(<< >>),
                                 "Engineer"))
    /\ fnPc' = IF Len(fnOut) = 0 THEN "formatting" ELSE "formatted"
    /\ UNCHANGED << pipelineVars, fnIn >>

NextFormat == FormatResponseReturns

SpecFormat == InitFormat /\ [][NextFormat]_vars


\* ------------------------------------------------- build_complete_benchmark

\* what a successful backend attempt of a sub-generation can carry
BenchRawOutputs(i) ==
    CASE i = 1 -> RawBenchmarks
      [] i = 4 -> {EmptyDict, [projects |-> JList(<< [name |-> JStr("shop")] >>)]}
      [] i = 5 -> {EmptyDict, [case_studies |-> JList(<< [title |-> JStr("case")] >>)]}
      [] i = 6 -> {EmptyDict, [action_plan |-> JDict([days |-> JInt(90)])]}
      [] OTHER -> {"", BenchSteps[i]}

\* what a sub-generation returns
BenchResult(i, raw) == IF i \in BenchJsonSteps THEN JDict(raw) ELSE JStr(raw)

\* lines 356-370: the dict build_complete_benchmark returns
BenchmarkOf(rets) ==
    LET ideal_profile == rets[1].v
    IN  [ideal_profile |-> Get(ideal_profile, "ideal_profile", JNull),
         ideal_skills |-> Get(ideal_profile, "ideal_skills", JList(<< >>)),
         ideal_experience |-> Get(ideal_profile, "ideal_experience", JList(<< >>)),
         ideal_education |-> Get(ideal_profile, "ideal_education", JList(<< >>)),
         ideal_certifications |->
             Get(ideal_profile, "ideal_certifications", JList(<< >>)),
         soft_skills |-> Get(ideal_profile, "soft_skills", JList(<< >>)),
         industry_knowledge |->
             Get(ideal_profile, "industry_knowledge", JList(<< >>)),
         scoring_weights |-> Get(ideal_profile, "scoring_weights", JDict(EmptyDict)),
         ideal_cv |-> rets[2],
         ideal_cover_letter |-> rets[3],
         ideal_portfolio |-> Get(rets[4].v, "projects", JList(<< >>)),
         ideal_case_studies |-> Get(rets[5].v, "case_studies", JList(<< >>)),
         ideal_action_plan |-> Get(rets[6].v, "action_plan", JDict(EmptyDict))]

InitBenchmark ==
    /\ PipelineOff
    /\ FnIdle
    /\ benchPc = "called"
    /\ benchCall = [i \in DOMAIN BenchSteps |-> Idle]
    /\ benchRet = [i \in DOMAIN BenchSteps |-> Unset]
    /\ benchOut = Unset

\* lines 330-333: the ideal profile is awaited first
BenchStart ==
    /\ benchPc = "called"
    /\ benchPc' = "awaiting"
    /\ benchCall' = [benchCall EXCEPT ![1] = Issued]
    /\ UNCHANGED << pipelineOnly, fnVars, benchRet, benchOut >>

\* sub-generation i is over with the calls and results given: the next one is
\* awaited, or after the last one the benchmark is put together and returned
BenchGoesOn(i, calls, rets) ==
    /\ benchRet' = rets
    /\ IF i < Len(BenchSteps)
       THEN /\ benchCall' = [calls EXCEPT ![i + 1] = Issued]
            /\ UNCHANGED << benchPc, benchOut >>
       ELSE /\ benchCall' = calls
            /\ benchPc' = "returned"
            /\ benchOut' = JDict(BenchmarkOf(rets))

\* a sub-generation whose failure is replaced by an empty result
BenchAttemptFailsAbsorbed(i, cause) ==
    /\ benchPc = "awaiting"
    /\ benchCall[i].status = "running"
    /\ cause = "parse" => i \in BenchJsonSteps
    /\ IF benchCall[i].attempts < MaxAttempts
       THEN /\ benchCall' = [benchCall EXCEPT ![i].status = "waiting",
                                               ![i].err = cause]
            /\ UNCHANGED << benchPc, benchRet, benchOut >>
       ELSE BenchGoesOn(i, [benchCall EXCEPT ![i] = Failed(cause)],
                        [benchRet EXCEPT
                            ![i] = BenchResult(i, IF i \in BenchJsonSteps
                                                  THEN EmptyDict ELSE "")])
    /\ UNCHANGED << pipelineOnly, fnVars >>

\* a backend attempt of sub-generation i fails: retried, or after the last
\* attempt raised through the await and out of build_complete_benchmark
BenchAttemptFails(i, cause) ==
    /\ benchPc = "awaiting"
    /\ benchCall[i].status = "running"
    /\ cause = "parse" => i \in BenchJsonSteps
    /\ IF benchCall[i].attempts < MaxAttempts
       THEN /\ benchCall' = [benchCall EXCEPT ![i].status = "waiting",
                                               ![i].err = cause]
            /\ UNCHANGED benchPc
       ELSE /\ benchCall' = [benchCall EXCEPT ![i] = Failed(cause)]
            /\ benchPc' = "raised"
    /\ UNCHANGED << pipelineOnly, fnVars, benchRet, benchOut >>

\* the backoff is over: the next backend attempt of sub-generation i
BenchRetryAttempt(i) ==
    /\ benchPc = "awaiting"
    /\ benchCall[i].status = "waiting"
    /\ benchCall' = [benchCall EXCEPT ![i].status = "running",
                                      ![i].attempts = benchCall[i].attempts + 1]
    /\ UNCHANGED << pipelineOnly, fnVars, benchPc, benchRet, benchOut >>

\* a backend attempt of sub-generation i succeeds: its await returns
BenchAttemptSucceeds(i, raw) ==
    /\ benchPc = "awaiting"
    /\ benchCall[i].status = "running"
    /\ BenchGoesOn(i, [benchCall EXCEPT ![i] = Done],
                   [benchRet EXCEPT ![i] = BenchResult(i, raw)])
    /\ UNCHANGED << pipelineOnly, fnVars >>

NextBenchmark ==
    \/ BenchStart
    \/ \E i \in DOMAIN BenchSteps, cause \in {"backend", "parse"} :
          BenchAttemptFails(i, cause)
    \/ \E i \in DOMAIN BenchSteps : BenchRetryAttempt(i)
    \/ \E i \in DOMAIN BenchSteps : \E raw \in BenchRawOutputs(i) :
          BenchAttemptSucceeds(i, raw)

SpecBenchmark == InitBenchmark /\ [][NextBenchmark]_vars


\* ----------------------------------- the chains' helpers, each on its own

\* most skills in a modelled resume answer
MaxSkills == 2

\* the categories the parsing prompt offers: technical|soft|language|tool
ValidCategories == {"technical", "soft", "language", "tool"}

SkillSamples ==
    { Merged(Merged([name |-> JStr("python")], level), category) :
        level \in {EmptyDict, [level |-> JNull], [level |-> JStr("Expert")],
                   [level |-> JStr("guru")]},
        category \in {EmptyDict, [category |-> JStr("soft")],
                      [category |-> JStr("wizardry")]} }

ProfileInputs ==
    { [skills |-> JList(l)] : l \in UNION {[1..n -> SkillSamples] : n \in 0..MaxSkills} }

\* most experience entries in a modelled profile
MaxExperience == 2

CandidateNames == {"Python", "aws"}
CandidateSkillLists ==
    UNION {[1..n -> {[name |-> JStr(x)] : x \in CandidateNames}] : n \in 0..MaxSkills}

RequiredSkillLists ==
    { << >>,
      << [name |-> JStr("python")] >>,
      << [name |-> JStr("python")], [name |-> JStr("AWS")], [name |-> JStr("go")] >>,
      << [name |-> JStr("Go")], [name |-> JStr("go")], [importance |-> JStr("critical")] >> }

\* experience entries: durations that parse, one that does not, none at all
ExperienceSamples ==
    { [company |-> JStr("Acme"), duration |-> JStr(<< "3", "years" >>)],
      [company |-> JStr("Acme"), duration |-> JStr(<< "1", "Year", "11", "Months" >>)],
      [company |-> JStr("Acme"), duration |-> JStr(<< "1", "month" >>)],
      [company |-> JStr("Acme"), duration |-> JStr(<< "many", "years" >>)],
      [company |-> JStr("Acme")] }

ExperienceLists == UNION {[1..n -> ExperienceSamples] : n \in 0..MaxExperience}

RequiredYears == {EmptyDict, [years_experience |-> JInt(0)], [years_experience |-> JInt(2)]}

ScoreInputs ==
    { [user_profile |-> [skills |-> JList(skills), experience |-> JList(experience)],
       benchmark |-> [ideal_skills |-> JList(required), ideal_profile |-> JDict(years)]] :
        skills \in CandidateSkillLists, experience \in ExperienceLists,
        required \in RequiredSkillLists, years \in RequiredYears }

\* An answer is a text of tokens: blanks " ", braces, colons, strings in double
\* or single quotes, bare words, and the fences "<fence>" and "<fence>json",
\* which stand for three backticks and for three backticks followed by json.

\* the double-quoted strings of the modelled answers, and what they spell
StringOf(token) ==
    CASE token = "\"a\"" -> "a"
      [] token = "\"x\"" -> "x"
      [] token = "\"None\"" -> "None"
      [] token = "\"null\"" -> "null"
      [] OTHER -> "?"

IsString(token) == StringOf(token) # "?"

\* the JSON values of one token
IsValue(token) == IsString(token) \/ token \in {"null", "true", "false", "1"}

ValueOf(token) ==
    CASE token = "null" -> JNull
      [] token = "true" -> JBool(TRUE)
      [] token = "false" -> JBool(FALSE)
      [] token = "1" -> JInt(1)
      [] OTHER -> JStr(StringOf(token))

\* json.loads accepts the text: a value, {} or an object of one member
Parses(content) ==
    \/ Len(content) = 1 /\ IsValue(content[1])
    \/ content = << "{", "}" >>
    \/ /\ Len(content) = 5
       /\ content[1] = "{" /\ IsString(content[2]) /\ content[3] = ":"
       /\ IsValue(content[4]) /\ content[5] = "}"

\* what json.loads returns for a text it accepts
Loads(content) ==
    IF Len(content) = 1 THEN ValueOf(content[1])
    ELSE IF Len(content) = 2 THEN JDict(EmptyDict)
    ELSE JDict([k \in {StringOf(content[2])} |-> ValueOf(content[4])])

\* content.replace("'", '"') and the three spellings, token by token
ReplaceQuotes(token) ==
    CASE token = "'a'" -> "\"a\""
      [] token = "'x'" -> "\"x\""
      [] OTHER -> token

ReplaceNone(token) ==
    CASE token = "None" -> "null"
      [] token = "\"None\"" -> "\"null\""
      [] OTHER -> token

ReplaceTrue(token) == IF token = "True" THEN "true" ELSE token

ReplaceFalse(token) == IF token = "False" THEN "false" ELSE token

\* the repair pass of _parse_json
Repaired(content) ==
    [i \in DOMAIN content |->
        ReplaceFalse(ReplaceTrue(ReplaceNone(ReplaceQuotes(content[i]))))]

\* content.find of three backticks from start: both fences begin with them
IsFence(token) == token \in {"<fence>", "<fence>json"}

FenceFrom(content, start) ==
    LET at == {j \in start..Len(content) : IsFence(content[j])}
    IN  IF at = {} THEN 0 ELSE CHOOSE j \in at : \A k \in at : j <= k

\* AIClient._extract_json: the text between the first json fence and the
\* next fence, else what follows the first three backticks up to the next
\* fence, else the text itself
ExtractJson(raw) ==
    LET content == Strip(raw)
        json_at == {i \in DOMAIN content : content[i] = "<fence>json"}
        first_json == CHOOSE i \in json_at : \A k \in json_at : i <= k
        first == FenceFrom(content, 1)
        rest == IF content[first] = "<fence>json" THEN << "json" >> ELSE << >>
    IN  IF /\ json_at # {}
           /\ FenceFrom(content, first_json + 1) > first_json + 1
        THEN Strip(SubSeq(content, first_json + 1, FenceFrom(content, first_json + 1) - 1))
        ELSE IF /\ first # 0
                /\ FenceFrom(content, first + 1) # 0
                /\ rest \o SubSeq(content, first + 1, FenceFrom(content, first + 1) - 1)
                       # << >>
        THEN Strip(rest \o SubSeq(content, first + 1, FenceFrom(content, first + 1) - 1))
        ELSE content

\* the objects the backend is made to answer, well-formed or not
JsonObject(k, v) == << "{", k, ":", v, "}" >>

JsonBodies ==
    { JsonObject(k, v) :
        k \in {"\"a\"", "'a'", "a"},
        v \in {"null", "None", "True", "False", "1", "\"x\"", "'x'", "\"None\"", "nil"} }
    \cup { << "{", "}" >>, << "None" >>, << "{", "\"a\"", ":", "1" >>, << >> }

\* the answer bare, fenced, introduced, or with a fence that never closes
JsonTexts ==
    UNION { { body,
              << " " >> \o body \o << " " >>,
              << "<fence>json", " " >> \o body \o << " ", "<fence>" >>,
              << "<fence>" >> \o body \o << "<fence>" >>,
              << "Here", "<fence>json" >> \o body \o << "<fence>", "Done" >>,
              << "<fence>json" >> \o body } : body \in JsonBodies }

\* employers as the profile and the generated content name them
EmployerSamples ==
    { [company |-> JStr("Acme")], [company |-> JStr("acme")],
      [company |-> JStr("Globex")], [company |-> JNull], [title |-> JStr("Engineer")] }

EmployerData ==
    {EmptyDict, [experience |-> JNull]}
    \cup { [experience |-> JList(l)] :
             l \in UNION {[1..n -> EmployerSamples] : n \in 0..MaxExperience} }

FabricationInputs == [generated : EmployerData, source : EmployerData]

InitHelpers ==
    /\ PipelineOff
    /\ BenchIdle
    /\ fnOut = Unset
    /\ \/ fnPc = "profile parsed" /\ fnIn \in ProfileInputs
       \/ fnPc = "score asked" /\ fnIn \in ScoreInputs
       \/ fnPc = "fabrication asked" /\ fnIn \in FabricationInputs
       \/ fnPc = "content given" /\ fnIn \in JsonTexts

\* parse_resume line 133: the parsed answer is cleaned, or a skill's level
\* raises
ParseResumeReturns ==
    /\ fnPc = "profile parsed"
    /\ IF ProfileValidateRaises(fnIn)
       THEN fnPc' = "profile raised" /\ UNCHANGED fnOut
       ELSE fnPc' = "profile returned" /\ fnOut' = JDict(ProfileValidate(fnIn))
    /\ UNCHANGED << pipelineVars, fnIn >>

\* calculate_compatibility_score returns
CalculateCompatibilityScoreReturns ==
    /\ fnPc = "score asked"
    /\ fnPc' = "score returned"
    /\ fnOut' = JInt(CalculateCompatibilityScore(fnIn.user_profile, fnIn.benchmark))
    /\ UNCHANGED << pipelineVars, fnIn >>

\* check_for_fabrication returns its warnings
CheckForFabricationReturns ==
    /\ fnPc = "fabrication asked"
    /\ fnPc' = "fabrication checked"
    /\ fnOut' = JList(CheckForFabrication(fnIn.generated, fnIn.source))
    /\ UNCHANGED << pipelineVars, fnIn >>

\* _parse_json parsing the repaired text at once
ParseJsonTriesRepaired ==
    /\ fnPc = "content given"
    /\ LET content == ExtractJson(fnIn)
       IN  IF Parses(Repaired(content))
           THEN /\ fnPc' = "json returned"
                /\ fnOut' = [content |-> content, value |-> Loads(Repaired(content)),
                             repairs |-> 0]
           ELSE /\ fnPc' = "first parse failed"
                /\ fnOut' = [content |-> content, value |-> Unset, repairs |-> 0]
    /\ UNCHANGED << pipelineVars, fnIn >>

\* _parse_json lines 134-137: the fences are stripped and the text is parsed
ParseJsonTries ==
    /\ fnPc = "content given"
    /\ LET content == ExtractJson(fnIn)
       IN  IF Parses(content)
           THEN /\ fnPc' = "json returned"
                /\ fnOut' = [content |-> content, value |-> Loads(content), repairs |-> 0]
           ELSE /\ fnPc' = "first parse failed"
                /\ fnOut' = [content |-> content, value |-> Unset, repairs |-> 0]
    /\ UNCHANGED << pipelineVars, fnIn >>

\* _parse_json lines 138-148: the text is repaired and parsed once more
ParseJsonRepairs ==
    /\ fnPc = "first parse failed"
    /\ LET content == Repaired(fnOut.content)
       IN  IF Parses(content)
           THEN /\ fnPc' = "json returned"
                /\ fnOut' = [content |-> content, value |-> Loads(content),
                             repairs |-> fnOut.repairs + 1]
           ELSE /\ fnPc' = "json raised"
                /\ fnOut' = [content |-> content, value |-> PyExc("ValueError"),
                             repairs |-> fnOut.repairs + 1]
    /\ UNCHANGED << pipelineVars, fnIn >>

NextHelpers ==
    \/ ParseResumeReturns
    \/ CalculateCompatibilityScoreReturns
    \/ CheckForFabricationReturns
    \/ ParseJsonTries
    \/ ParseJsonRepairs

SpecHelpers == InitHelpers /\ [][NextHelpers]_vars


\* ------------------------------------------------------------------- claims

\* the phase a stage's call belongs to
PhaseOf(s) ==
    CASE s \in {"profiler", "benchmark"} -> 1
      [] s = "gap" -> 2
      [] s \in Phase3Calls -> 3
      [] s \in Phase4Calls -> 4
      [] OTHER -> 5

\* the phase the pipeline stands in; 6 once it has returned
PcPhase ==
    CASE pc = "start" -> 0
      [] pc = "phase1" -> 1
      [] pc = "phase2" -> 2
      [] pc = "phase3" -> 3
      [] pc = "phase4" -> 4
      [] pc = "phase5" -> 5
      [] OTHER -> 6

EarlyStages == {"profiler", "benchmark", "gap"}

\* C1: once Phase 3 is reached, any hard failure among the CV, cover-letter and
\* roadmap calls is absorbed: the request does not fail, and the response holds
\* the neutral default of each failed call and the output of each successful one.
C1_Phase3FailuresAbsorbed ==
    /\ (\E s \in Phase3Calls : call[s].status = "failed") => pc # "failed"
    /\ pc = "done" =>
        /\ http = 200
        /\ response.cvHtml =
              IF call["cv"].status = "done" THEN ret["cv"] ELSE JStr("")
        /\ response.coverLetterHtml =
              IF call["cl"].status = "done" THEN ret["cl"] ELSE JStr("")
        /\ response.learningPlan =
              FormatLearningPlan(IF call["roadmap"].status = "done"
                                 THEN ret["roadmap"].v ELSE EmptyDict)

\* C2: the phases are entered in order: a call of a later phase is issued only
\* when every call of every earlier phase has settled (the profiler's call not
\* being made for a blank resume), and never ahead of the pipeline's own phase.
C2_PhasesInOrder ==
    \A t \in Stages :
        call[t].status # "idle" =>
            /\ PhaseOf(t) <= PcPhase
            /\ \A s \in Stages :
                  PhaseOf(s) < PhaseOf(t) =>
                      \/ Settled(s)
                      \/ s = "profiler" /\ ~HasResume(req) /\ call[s].status = "idle"

C2_Witness ==
    /\ pc = "phase5"
    /\ call["validator"].status = "running"
    /\ call["ps"].status = "failed"
    /\ call["portfolio"].status = "done"

\* C3: a hard failure of the profiler, benchmark or gap-analysis call ends the
\* request in the failed outcome: the only step left to the pipeline is the
\* outer handler, no call of a later phase is ever issued, nothing is formatted
\* or returned, and the reply is a 500 whose detail is a failed call's message.
C3_EarlyFailureAborts ==
    \A s \in EarlyStages :
        call[s].status = "failed" =>
            /\ \A t \in Stages : PhaseOf(t) > PhaseOf(s) => call[t].status = "idle"
            /\ response = Unset
            /\ IF pc = "failed"
               THEN /\ http = 500
                    /\ detail \in {e \in EarlyStages : call[e].status = "failed"}
               ELSE /\ PcPhase = PhaseOf(s)
                    /\ http = 0
                    /\ ENABLED Abort
                    /\ ~ENABLED Phase1Join
                    /\ ~ENABLED Phase2Join

C3_Witness ==
    /\ pc = "failed"
    /\ call["gap"].status = "failed"
    /\ call["gap"].err = "backend"
    /\ http = 500
    /\ detail = "gap"

\* C4: the reply is a 500 only if a Phase 1 or Phase 2 call hard-failed; when
\* those calls all succeed the request ends with a 200, whatever the calls of
\* Phases 3, 4 and 5 do.
C4_FailureOnlyFromEarlyPhases ==
    /\ http = 500 => \E s \in EarlyStages : call[s].status = "failed"
    /\ pc = "failed" => \E s \in EarlyStages : call[s].status = "failed"

\* C5: a failure of the personal-statement call, of the portfolio call or of
\* both never fails the request: Phase 5 is entered, a failed call's output is
\* the empty string and a successful call's output is kept, up to the response.
C5_Phase4FailuresAbsorbed ==
    /\ (\E s \in Phase4Calls : call[s].status # "idle") =>
            pc \in {"phase4", "phase5", "done"}
    /\ pc = "phase4" /\ AllSettled(Phase4Calls) => ENABLED Phase4Join
    /\ pc \in {"phase5", "done"} =>
        /\ ps_html = IF call["ps"].status = "done" THEN ret["ps"] ELSE JStr("")
        /\ portfolio_html =
              IF call["portfolio"].status = "done" THEN ret["portfolio"]
              ELSE JStr("")
    /\ pc = "done" =>
        /\ response.personalStatementHtml = ps_html
        /\ response.portfolioHtml = portfolio_html

C5_Witness ==
    /\ pc = "done"
    /\ call["ps"].status = "failed"
    /\ call["portfolio"].status = "done"
    /\ response.personalStatementHtml = JStr("")
    /\ response.portfolioHtml = JStr("portfolio")

\* C6: Phase 5 cannot fail the request: whatever the validator's call does the
\* response is formatted and returned with a 200; a failed validation leaves the
\* validation block empty, and the block has a "cv" entry only if the
\* validator's call succeeded.
C6_ValidationNeverFails ==
    /\ call["validator"].status # "idle" => pc \in {"phase5", "done"}
    /\ pc = "phase5" /\ Settled("validator") => ENABLED Phase5Join
    /\ pc = "done" =>
        /\ http = 200
        /\ response # Unset
        /\ response.validation = validation
        /\ call["validator"].status = "failed" => validation = EmptyDict
        /\ "cv" \in DOMAIN validation => call["validator"].status = "done"

C6_Witness ==
    /\ pc = "done"
    /\ http = 200
    /\ call["validator"].status = "failed"
    /\ response.validation = EmptyDict

\* C7: for a blank resume the profiler is not called and the profile handed to
\* Phase 2 is the typed-default empty profile, the value the profiler's
\* normalisation makes of an empty answer.
C7_BlankResumeGivesDefaultProfile ==
    ~HasResume(req) =>
        /\ call["profiler"].status = "idle"
        /\ pc = "phase2" => user_profile = JDict(ProfileValidate(EmptyDict))

\* C8: a normalised gap analysis has a compatibility_score within 0..100: a
\* returned number above 100 becomes 100, one below 0 becomes 0, one within the
\* range is kept, and a missing score becomes 50.
C8_ScoreClamped ==
    gapPc \in {"once", "twice"} =>
        LET out == gapOut.v["compatibility_score"]
        IN  /\ out.t = "int"
            /\ out.v \in 0..100
            /\ IF Has(gapIn, "compatibility_score")
               THEN LET x == gapIn["compatibility_score"].v
                    IN  /\ x > 100 => out.v = 100
                        /\ x < 0 => out.v = 0
                        /\ x \in 0..100 => out.v = x
               ELSE out.v = 50

C8_Witness ==
    /\ gapPc = "once"
    /\ Has(gapIn, "compatibility_score")
    /\ gapIn["compatibility_score"] = JInt(150)
    /\ gapOut.v["compatibility_score"] = JInt(100)

\* C9: in a normalised gap analysis the recommendations that have a priority are
\* in ascending order of it, and every recommendation without a priority comes
\* after every recommendation that has one.
C9_MissingPrioritySortsLast ==
    gapPc = "once" =>
        LET r == gapOut.v["recommendations"].v
        IN  \A i, j \in 1..Len(r) :
                i < j =>
                    /\ Has(r[i], "priority") /\ Has(r[j], "priority") =>
                          r[i]["priority"].v <= r[j]["priority"].v
                    /\ ~(~Has(r[i], "priority") /\ Has(r[j], "priority"))

\* C10: normalising a normalised gap analysis changes nothing: the second
\* result has the keys, the values and the recommendation order of the first.
C10_ValidateIdempotent == gapPc = "twice" => gapTwice = gapOut

C10_Witness ==
    /\ gapPc = "twice"
    /\ Has(gapIn, "recommendations")
    /\ gapIn["recommendations"] # gapOut.v["recommendations"]
    /\ Has(gapIn, "compatibility_score")
    /\ gapIn["compatibility_score"] # gapOut.v["compatibility_score"]
    /\ DOMAIN gapIn # DOMAIN gapOut.v

\* C11: in every normalised gap analysis each optional collection (the eleven
\* list and dict fields) is present and is a list or a dict, never null, also
\* when the backend returned the key with a null value.
C11_CollectionsNeverNull ==
    gapPc \in {"once", "twice"} =>
        \A k \in OptionalCollections :
            /\ Has(gapOut.v, k)
            /\ gapOut.v[k].t \in {"list", "dict"}

\* the top-level keys of a benchmark profile
BenchmarkKeys ==
    {"ideal_profile", "ideal_skills", "ideal_experience", "ideal_education",
     "ideal_certifications", "soft_skills", "industry_knowledge", "scoring_weights"}

\* C12: what one phase hands to the next has its full declared shape: when
\* Phase 2 starts the benchmark holds every declared top-level key and the
\* profile every declared key, and when Phase 3 starts the gap analysis holds
\* every declared key, whatever keys the backend omitted.
C12_FullShapeAtHandoff ==
    /\ pc = "phase2" =>
        /\ BenchmarkKeys \subseteq DOMAIN benchmark_data.v
        /\ ProfileKeys \subseteq DOMAIN user_profile.v
    /\ pc = "phase3" => GapKeys \subseteq DOMAIN gap_analysis.v

\* C13: within one invocation of complete / complete_json a backend attempt
\* that fails with a network/backend error before the third attempt is followed
\* by a further attempt; the attempts never exceed 3; an attempt that succeeds
\* returns its result and the invocation makes no further attempt; the third
\* failed attempt makes the invocation fail hard.
C13_StepOfCall(s) ==
    LET c == call[s]
        d == call'[s]
    IN  /\ c.status = "running" /\ d # c /\ d.err = "backend" =>
            IF c.attempts < 3
            THEN d.status = "waiting" /\ d.attempts = c.attempts
            ELSE d.status = "failed"
        /\ c.status = "waiting" /\ d # c =>
            d.status = "running" /\ d.attempts = c.attempts + 1
        /\ c.status = "running" /\ d.status = "done" => ret'[s] # Unset
        /\ c.status \in {"done", "failed"} => d = c /\ ret'[s] = ret[s]

C13_RetryUpToThree ==
    /\ [](\A s \in Stages :
            /\ call[s].attempts \in 0..3
            /\ call[s].status = "running" => call[s].attempts \in 1..3
            /\ call[s].status = "waiting" =>
                  call[s].attempts \in 1..2 /\ ENABLED RetryAttempt(s))
    /\ [][\A s \in Stages : C13_StepOfCall(s)]_vars

C13_Witness ==
    /\ call["cv"].status = "failed"
    /\ call["cv"].err = "backend"
    /\ call["cl"].status = "running"
    /\ call["cl"].attempts = 3
    /\ call["roadmap"].status = "done"

\* C14: a parse failure of complete_json is not retried: once the backend has
\* answered and the text cannot be parsed, the invocation fails at once, so no
\* call is ever waiting to make a further attempt after a parse failure.
C14_ParseFailureNotRetried ==
    \A s \in JsonStages : ~(call[s].status = "waiting" /\ call[s].err = "parse")

\* C15: whenever the model's detail holds an issue of severity "critical",
\* validate_document returns is_valid = False, whether the model said true,
\* false or nothing for is_valid; the detail is returned as the model gave it.
C15_CriticalForcesInvalid ==
    fnPc = "verdict returned" =>
        /\ fnOut.v[2] = JDict(fnIn)
        /\ (/\ Has(fnIn, "issues")
            /\ \E i \in DOMAIN fnIn["issues"].v :
                  /\ Has(fnIn["issues"].v[i], "severity")
                  /\ fnIn["issues"].v[i]["severity"].v = "critical")
           => fnOut.v[1] = JBool(FALSE)

C15_Witness ==
    /\ fnPc = "verdict returned"
    /\ Has(fnIn, "is_valid") /\ fnIn["is_valid"] = JBool(TRUE)
    /\ Has(fnIn, "issues") /\ Len(fnIn["issues"].v) = 2
    /\ fnIn["issues"].v[2] = [severity |-> JStr("critical")]
    /\ fnIn["issues"].v[1] = [severity |-> JStr("major")]
    /\ fnOut.v[1] = JBool(FALSE)

\* the vocabulary terms that occur within a word as a substring, whatever the case
TermsWithin(w) ==
    CASE w \in {"React", "react,", "reactive"} -> {"react"}
      [] w = "Postgres." -> {"postgres"}
      [] w = "PostgreSQL" -> {"postgres", "sql"}
      [] w = "(python)" -> {"python"}
      [] w = "javascript" -> {"javascript", "java"}
      [] w \in {"django", "mongodb"} -> {w, "go"}
      [] w = "mysql" -> {w, "sql"}
      [] w \in {"github", "gitlab"} -> {w, "git"}
      [] w = "tailwind" -> {w, "ai"}
      [] w = "html" -> {w, "ml"}
      [] w \in Known -> {w}
      [] OTHER -> {}

\* the vocabulary term a word is once its case and the punctuation around it
\* are dropped
TermOfWord(w) == IF CleanWord(w) \in Known THEN {CleanWord(w)} ELSE {}

\* out lists the terms of termsAt (per word of the text, the terms found there):
\* nothing else, none twice, in order of first appearance, the first 25 of them
ListsTermsInOrder(out, termsAt) ==
    LET occurring == UNION {termsAt[i] : i \in DOMAIN termsAt}
        First(x) == CHOOSE i \in DOMAIN termsAt :
                        x \in termsAt[i] /\ \A j \in 1..(i - 1) : x \notin termsAt[j]
    IN  /\ Len(out) <= 25
        /\ \A i \in DOMAIN out : out[i].t = "str" /\ out[i].v \in occurring
        /\ \A i, j \in DOMAIN out :
              i < j => out[i] # out[j] /\ First(out[i].v) <= First(out[j].v)
        /\ \A x \in occurring :
              \/ \E i \in DOMAIN out : out[i].v = x
              \/ Len(out) = 25 /\ \A i \in DOMAIN out : First(out[i].v) <= First(x)

\* C16 as stated: the fallback returns the vocabulary terms that occur in the
\* text as substrings, whatever the case: each at most once, in order of first
\* appearance, nothing outside the vocabulary, at most 25, with no model call.
C16_KeywordsBySubstring ==
    fnPc = "keywords returned" =>
        /\ ListsTermsInOrder(fnOut.v, [i \in DOMAIN fnIn |-> TermsWithin(fnIn[i])])
        /\ \A s \in Stages : call[s].status = "idle"

\* C16 amended: the fallback returns the vocabulary terms that occur in the
\* text as whole whitespace-separated words, compared in lower case with the
\* punctuation around the word dropped: each exactly once, in order of first
\* appearance, nothing else, cut to the first 25, with no model call.
C16_KeywordsByWholeWord ==
    fnPc = "keywords returned" =>
        /\ ListsTermsInOrder(fnOut.v, [i \in DOMAIN fnIn |-> TermOfWord(fnIn[i])])
        /\ \A s \in Stages : call[s].status = "idle"

C16_Witness ==
    /\ fnPc = "keywords returned"
    /\ fnIn = << "React", "Postgres.", "react," >>
    /\ fnOut = JList(<< JStr("react"), JStr("postgres") >>)

\* C17: for a gap analysis with integer compatibility_score c the response's
\* scores are match = c clamped to 0..100, atsReadiness = min(100, match + 15),
\* recruiterScan = min(100, match + 10), evidenceStrength = 0, overall = match;
\* a second call with the same inputs gives the same scores.
C17_ScoresDerived ==
    \A n \in DOMAIN fnOut :
        LET c == fnIn["compatibility_score"].v
            sc == fnOut[n].scores
            m == IF c > 100 THEN 100 ELSE IF c < 0 THEN 0 ELSE c
        IN  /\ sc.match = m
            /\ sc.atsReadiness = (IF m + 15 > 100 THEN 100 ELSE m + 15)
            /\ sc.recruiterScan = (IF m + 10 > 100 THEN 100 ELSE m + 10)
            /\ sc.evidenceStrength = 0
            /\ sc.overall = m
            /\ sc = fnOut[1].scores

C17_Witness ==
    /\ fnPc = "formatted"
    /\ fnIn["compatibility_score"] = JInt(-7)
    /\ Len(fnOut) = 2
    /\ fnOut[2].scores.match = 0
    /\ fnOut[2].scores.atsReadiness = 15
    /\ fnOut[2].scores.recruiterScan = 10

\* the completion calls that are issued and have not settled
InFlight == {s \in Stages : call[s].status \in {"running", "waiting"}}

\* C18: at every instant of a request at most 3 completion calls are issued
\* and not yet settled: at most 2 during Phase 1, 1 during Phase 2, 3 during
\* Phase 3, 2 during Phase 4 and 1 during Phase 5, also once a sibling has
\* failed and once the request has ended.
C18_AtMostThreeInFlight ==
    /\ Cardinality(InFlight) <= 3
    /\ pc = "phase1" => Cardinality(InFlight) <= 2
    /\ pc = "phase2" => Cardinality(InFlight) <= 1
    /\ pc = "phase4" => Cardinality(InFlight) <= 2
    /\ pc = "phase5" => Cardinality(InFlight) <= 1
    /\ pc \in {"phase1", "phase2", "phase3", "phase4", "phase5"} =>
            InFlight \subseteq Awaited

C18_Witness ==
    /\ pc = "failed"
    /\ call["cv"].status = "failed"
    /\ call["cl"].status = "running"
    /\ call["roadmap"].status = "waiting"
    /\ Cardinality(InFlight) = 2

\* C19: if every backend attempt settles and the scheduler is fair, every
\* request ends in exactly one of two outcomes and stays there: done, a 200
\* with a response, or failed, a 500 with none; it never stays in a phase.
C19_Terminates ==
    /\ <>(pc \in {"done", "failed"})
    /\ [](pc = "done" => http = 200 /\ response # Unset)
    /\ [](pc = "failed" => http = 500 /\ response = Unset)
    /\ [][(pc \in {"done", "failed"}) => (pc' = pc /\ http' = http)]_vars

C19_Witness ==
    /\ pc = "done"
    /\ http = 200
    /\ call["profiler"].status = "idle"
    /\ call["portfolio"].status = "failed"
    /\ \A s \in Stages \ {"profiler"} : Settled(s)

\* the sub-generations that are issued and have not settled
BenchInFlight ==
    {i \in DOMAIN BenchSteps : benchCall[i].status \in {"running", "waiting"}}

\* C20: build_complete_benchmark issues its six sub-generations one after
\* another in the order ideal profile, CV, cover letter, portfolio, case
\* studies, action plan: never two in flight, none before every earlier one
\* has succeeded; when one fails no later one is issued and no benchmark, not
\* even a partial one, is returned.
C20_BenchmarkSequential ==
    /\ Cardinality(BenchInFlight) <= 1
    /\ \A i \in DOMAIN BenchSteps :
          /\ benchCall[i].status # "idle" =>
                \A j \in 1..(i - 1) : benchCall[j].status = "done"
          /\ benchCall[i].status = "failed" =>
                /\ \A j \in (i + 1)..Len(BenchSteps) : benchCall[j].status = "idle"
                /\ benchPc = "raised"
    /\ benchPc = "raised" => benchOut = Unset
    /\ benchOut # Unset =>
          /\ benchPc = "returned"
          /\ \A i \in DOMAIN BenchSteps : benchCall[i].status = "done"

C20_Witness ==
    /\ benchPc = "raised"
    /\ benchCall[4].status = "failed"
    /\ benchCall[3].status = "done"
    /\ benchCall[5].status = "idle"
    /\ benchOut = Unset

\* C21: the pipeline leaves a concurrent phase, to enter the next one or to end
\* the request, only when every call issued in that phase has settled: a call
\* that is in flight is always one the pipeline is still awaiting, and none is
\* in flight once the request has returned its response or its failure.
C21_NoCallInFlightOnLeaving == InFlight \subseteq Awaited

\* call a settled before call b
SettledBefore(a, b) ==
    \E i, j \in DOMAIN arrived : i < j /\ arrived[i] = a /\ arrived[j] = b

\* what the response carries for an optional document
OptionalDocument(s) == IF call[s].status = "done" THEN ret[s] ELSE JStr("")

\* C22: whatever the order in which the calls of a phase settle, each result is
\* bound to the role of the call that produced it: the profile is the
\* profiler's result and the benchmark the benchmark builder's, the CV, the
\* cover letter and the roadmap are those of their own calls, and the response
\* carries the CV, the cover letter, the learning plan made from the roadmap,
\* the personal statement and the portfolio of the calls of those names.
C22_BoundByRole ==
    /\ benchmark_data # Unset =>
          /\ user_profile = ret["profiler"]
          /\ benchmark_data = ret["benchmark"]
    /\ cv_html # Unset =>
          /\ cv_html = ret["cv"]
          /\ cl_html = ret["cl"]
          /\ roadmap = ret["roadmap"]
    /\ pc = "done" =>
          /\ response.cvHtml = ret["cv"]
          /\ response.coverLetterHtml = ret["cl"]
          /\ response.learningPlan = FormatLearningPlan(ret["roadmap"].v)
          /\ response.personalStatementHtml = OptionalDocument("ps")
          /\ response.portfolioHtml = OptionalDocument("portfolio")

\* a response whose calls settled against the order of the gather's arguments
C22_Witness ==
    /\ pc = "done"
    /\ SettledBefore("benchmark", "profiler")
    /\ SettledBefore("roadmap", "cl") /\ SettledBefore("cl", "cv")
    /\ SettledBefore("portfolio", "ps")
    /\ response.cvHtml = JStr("cv")
    /\ response.personalStatementHtml = JStr("ps")
    /\ response.portfolioHtml = JStr("portfolio")

\* C23: once the gap analysis has been produced, the profile, the benchmark and
\* the gap analysis are only read: no later step of the request (the calls of
\* Phases 3, 4 and 5, the joins, the formatting of the response) changes them.
C23_UpstreamNeverModified ==
    [][(gap_analysis # Unset) =>
          /\ user_profile' = user_profile
          /\ benchmark_data' = benchmark_data
          /\ gap_analysis' = gap_analysis]_vars

\* a response has been formatted from outputs that are still as produced
C23_Witness ==
    /\ pc = "done"
    /\ HasResume(req)
    /\ user_profile = ret["profiler"]
    /\ benchmark_data = ret["benchmark"]
    /\ gap_analysis = ret["gap"]
    /\ response.scores.match = gap_analysis.v["compatibility_score"].v

\* C24: parse_resume rejects no answer because of a skill's level or category,
\* and in the profile it returns every skill has a level among beginner,
\* intermediate, advanced, expert and a category among the offered categories.
C24_SkillsInEnumerations ==
    /\ fnPc # "profile raised"
    /\ fnPc = "profile returned" =>
          \A i \in DOMAIN fnOut.v["skills"].v :
              LET skill == fnOut.v["skills"].v[i]
              IN  /\ skill["level"].v \in ValidLevels
                  /\ skill["category"].t = "str"
                  /\ skill["category"].v \in ValidCategories

\* the lists holding the elements of s in another order
Reorderings(s) ==
    { [i \in DOMAIN s |-> s[f[i]]] :
        f \in {g \in [DOMAIN s -> DOMAIN s] : \A i, j \in DOMAIN s : g[i] = g[j] => i = j} }

\* C25: the normalised recommendations do not depend on the order in which the
\* model listed them: had the answer held the same recommendations in any other
\* order, normalisation would have returned the same list, ties of priority
\* and missing priorities included.
C25_OrderIndependent ==
    (gapPc = "once" /\ Truthy(Get(gapIn, "recommendations", JNull))) =>
        \A other \in Reorderings(gapIn["recommendations"].v) :
            SortedRecs(other) = gapOut.v["recommendations"].v

\* the names of a list of skills as the answer spells them
SpelledNames(skills) == {Get(skills[i], "name", JStr("")).v : i \in DOMAIN skills}

\* the number a duration's first "N year(s)" or "N month(s)" gives
AmountBefore(words, unit) ==
    IF UnitPlaces(words, unit) = {} THEN 0
    ELSE NumberOf(words[FirstPlace(UnitPlaces(words, unit))])

\* the parsed years of the experience entries, summed, in twelfths of a year
RECURSIVE TotalTwelfths(_)
TotalTwelfths(experience) ==
    IF experience = << >> THEN 0
    ELSE (IF Has(Head(experience), "duration")
          THEN 12 * AmountBefore(Head(experience)["duration"].v, YearWords)
               + AmountBefore(Head(experience)["duration"].v, MonthWords)
          ELSE 0)
         + TotalTwelfths(Tail(experience))

\* C26: calculate_compatibility_score makes no model call and returns
\* 50 + floor(25 * matched / required) + floor(25 * min(1, years / max(required
\* years, 1))), where the required names are counted and matched without
\* regard to case and no required skill gives 0 points; the result is an
\* integer from 50 to 100, and entries whose duration cannot be parsed add
\* nothing to the years.
C26_QuickScore ==
    fnPc = "score returned" =>
        LET skills == fnIn.user_profile["skills"].v
            required == {Lower(n) : n \in SpelledNames(fnIn.benchmark["ideal_skills"].v)}
            matched == {r \in required : \E n \in SpelledNames(skills) : Lower(n) = r}
            years == Get(fnIn.benchmark["ideal_profile"].v, "years_experience", JInt(5)).v
            twelfths == TotalTwelfths(fnIn.user_profile["experience"].v)
            needed == 12 * (IF years > 1 THEN years ELSE 1)
            skill_points == IF required = {} THEN 0
                            ELSE (25 * Cardinality(matched)) \div Cardinality(required)
            exp_points == IF twelfths >= needed THEN 25 ELSE (25 * twelfths) \div needed
        IN  /\ fnOut = JInt(50 + skill_points + exp_points)
            /\ fnOut.v \in 50..100
            /\ \A s \in Stages : call[s] = Idle

\* the employers named by the experience entries of a profile or a document
EmployersNamed(data) ==
    IF Has(data, "experience") /\ data["experience"].t = "list"
    THEN {e["company"].v :
            e \in {data["experience"].v[i] : i \in DOMAIN data["experience"].v}
                  \cap [company : {JStr(n) : n \in {"Acme", "acme", "Globex"}}]}
    ELSE {}

\* C27: check_for_fabrication makes no model call; it returns a warning exactly
\* when the generated content names an employer that the source does not name,
\* case disregarded, the warning names exactly those employers, and the list
\* is empty when every generated employer is in the source.
C27_FabricationWarning ==
    fnPc = "fabrication checked" =>
        LET generatedOnly ==
                {Lower(g) : g \in {n \in EmployersNamed(fnIn.generated) :
                                     \A m \in EmployersNamed(fnIn.source) :
                                         Lower(m) # Lower(n)}}
        IN  /\ (fnOut.v # << >>) <=> (generatedOnly # {})
            /\ fnOut.v # << >> =>
                  /\ Len(fnOut.v) = 1
                  /\ fnOut.v[1].companies = generatedOnly
            /\ \A s \in Stages : call[s] = Idle

\* one employer matches the source but for its case, another is in the
\* generated content only
C27_Witness ==
    /\ fnPc = "fabrication checked"
    /\ EmployersNamed(fnIn.generated) = {"acme", "Globex"}
    /\ EmployersNamed(fnIn.source) = {"Acme"}
    /\ fnOut.v[1].companies = {"globex"}

\* C28: _parse_json strips the fences and parses; only when that parse fails it
\* repairs the text once (quotes, None, True, False) and parses once more. A
\* text that parses directly is returned as parsed, unrepaired; a text that
\* parses only once repaired returns the repaired object; a text that fails
\* both parses raises the parse error; there is never a second repair.
C28_ParseThenRepairOnce ==
    fnPc \in {"first parse failed", "json returned", "json raised"} =>
        LET content == ExtractJson(fnIn)
        IN  /\ fnOut.repairs \in {0, 1}
            /\ fnPc = "first parse failed" => ~Parses(content) /\ fnOut.repairs = 0
            /\ fnPc = "json returned" =>
                  IF Parses(content)
                  THEN fnOut.repairs = 0 /\ fnOut.value = Loads(content)
                  ELSE /\ fnOut.repairs = 1
                       /\ Parses(Repaired(content))
                       /\ fnOut.value = Loads(Repaired(content))
            /\ fnPc = "json raised" =>
                  /\ fnOut.repairs = 1
                  /\ ~Parses(content) /\ ~Parses(Repaired(content))
                  /\ fnOut.value = PyExc("ValueError")
            /\ fnPc \in {"json returned", "json raised"} => ~ENABLED NextHelpers

\* a fenced answer in Python spelling came back as the repaired object
C28_Witness ==
    /\ fnPc = "json returned"
    /\ fnIn = << "<fence>json", " ", "{", "'a'", ":", "None", "}", " ", "<fence>" >>
    /\ fnOut.repairs = 1
    /\ fnOut.value = JDict([a |-> JNull])

\* the numbers of the scores block
ScoreFields ==
    {"match", "atsReadiness", "recruiterScan", "evidenceStrength", "benchmark",
     "gaps", "cv", "coverLetter", "overall"}

\* C29: in every response every derived score lies in 0..100, match <=
\* recruiterScan <= atsReadiness, overall = benchmark = match, coverLetter =
\* atsReadiness <= cv, gaps = max(0, 100 - 8 * the number of missing keywords),
\* and the scorecard's overall, match, atsReadiness, recruiterScan,
\* evidenceStrength and topFix are those of the scores.
C29_ScoresConsistent ==
    \A n \in DOMAIN fnOut :
        LET sc == fnOut[n].scores
            card == fnOut[n].scorecard
            skill_gaps == Get(fnIn, "skill_gaps", JList(<< >>)).v
            missing == Cardinality({i \in DOMAIN skill_gaps : Has(skill_gaps[i], "skill")})
        IN  /\ \A f \in ScoreFields : sc[f] \in 0..100
            /\ sc.match <= sc.recruiterScan /\ sc.recruiterScan <= sc.atsReadiness
            /\ sc.overall = sc.match /\ sc.benchmark = sc.match
            /\ sc.coverLetter = sc.atsReadiness /\ sc.atsReadiness <= sc.cv
            /\ sc.gaps = (IF 8 * missing > 100 THEN 0 ELSE 100 - 8 * missing)
            /\ \A f \in {"overall", "match", "atsReadiness", "recruiterScan",
                          "evidenceStrength", "topFix"} : card[f] = sc[f]

\* thirteen missing keywords bring the gaps score to 0, and a compatibility of
\* 90 brings the CV and cover letter scores to the cap
C29_Witness ==
    /\ fnPc = "formatted"
    /\ fnIn["compatibility_score"] = JInt(90)
    /\ Len(fnOut[1].gaps.missingKeywords) = 13
    /\ fnOut[1].scores.gaps = 0
    /\ fnOut[1].scores.cv = 100
    /\ fnOut[1].scorecard.atsReadiness = 100

\* the backend attempts begun so far: those that ended and those under way
AttemptsBegun == made + Cardinality({s \in Stages : call[s].status = "running"})

\* C30: within one request every stage is invoked at most once (a call that
\* has settled is never issued again), an invocation makes at most 3 backend
\* attempts, the next one beginning only when the one before has ended, and
\* the request makes no more than 27 backend attempts in all.
C30_WorkBounded ==
    /\ [](/\ \A s \in Stages : call[s].attempts <= 3
          /\ AttemptsBegun <= 27)
    /\ [][\A s \in Stages :
             /\ Settled(s) => call'[s] = call[s]
             /\ call[s].status = "running" => call'[s].attempts <= call[s].attempts
             /\ call'[s].attempts <= call[s].attempts + 1]_vars

\* every stage answered on its third attempt: the request finished after 27
C30_Witness == pc = "done" /\ made = 27 /\ AllDone(Stages)

====
